---- MODULE Spec2Model ----
(***************************************************************************)
(* Verification model of the dynamic-gateway core:                         *)
(*   - internal/balancer/round_robin.go   RoundRobinBalancer               *)
(*   - internal/pool/connection_pool.go   ConnectionPool                   *)
(*   - internal/router/http_handler.go    HTTPHandler                      *)
(*   - internal/router/protocol_converter.go  GRPCHandler                  *)
(*   - internal/router/protocol_converter.go  ProtocolConverter            *)
(* Each component has its own specification over the shared variables; the *)
(* variables of the components a specification does not exercise stay at   *)
(* their constructed values.                                               *)
(***************************************************************************)
EXTENDS Integers, Sequences, FiniteSets, TLC

\* ------------------------------------------------------------------ bounds
\* Longest backend list handed to NewRoundRobinBalancer / UpdateBackends.
MaxBackends == 3
\* Goroutines calling Next() (and GetConnection) concurrently.
NumCallers == 2
\* Next() calls started over one run.
MaxCalls == 4
\* UpdateBackends calls over one run.
MaxUpdates == 1
\* Connections dialled over one run.
MaxConns == 3
\* Longest route pattern and request path, in symbols.
MaxPathLen == 2
\* Longest route list of a configuration.
MaxRoutes == 2
\* Width of the counter in the model: uint32 scaled down to CounterBits bits.
CounterBits == 4

Addrs == {"B1", "B2", "B3"}
EMPTY == ""
\* A runtime panic of the calling goroutine (index out of range, division by zero).
PANIC == "panic"

Callers == 1..NumCallers
SeqCaller == {1}

RECURSIVE SeqsUpTo(_, _)
\* Every sequence over S of length 0..n.
SeqsUpTo(S, n) ==
  IF n = 0 THEN {<<>>}
  ELSE LET shorter == SeqsUpTo(S, n - 1)
       IN  shorter \cup {Append(s, x) : s \in {q \in shorter : Len(q) = n - 1}, x \in S}

BackendLists == SeqsUpTo(Addrs, MaxBackends)

\* ------------------------------------------------------------ the balancer
VARIABLES
  backends,   \* RoundRobinBalancer.backends: the slice header, [data, len]
  counter,    \* RoundRobinBalancer.counter (uint32)
  mu,         \* RoundRobinBalancer.mu: [readers, writer]
  npc,        \* per caller: its position inside Next()
  index,      \* per caller: the local index of Next()
  upc,        \* the updater's position inside UpdateBackends()
  unew,       \* the argument of the UpdateBackends() call in progress
  hist,       \* history: one entry per returned Next(), in order of return
  installed   \* history: the constructor's list, then the list of every returned UpdateBackends

balVars == <<backends, counter, mu, npc, index, upc, unew, hist, installed>>

\* ------------------------------------------------------ the connection pool
VARIABLES
  conns,        \* every *grpc.ClientConn dialled so far: [addr, state, tls]; its place is its identity
  connections,  \* ConnectionPool.connections (sync.Map): address -> connection, 0 for no entry
  gpc,          \* per caller: its position inside GetConnection()
  garg,         \* per caller: the arguments of its call, [addr, tls]
  gconn,        \* per caller: the local clientConn (0: the Load found nothing)
  gstate,       \* per caller: the local state
  gnew,         \* per caller: the local conn of line 49 (0: none)
  gret          \* per caller: what its call returned, [conn, err]

poolVars == <<conns, connections, gpc, garg, gconn, gstate, gnew, gret>>

\* ------------------------------------------------------------- the routes
VARIABLES
  routes,       \* Config.HTTPRoutes: a sequence of [path, methods]
  lookup        \* the findRoute call of a request: [path, method, done, found, key]

routeVars == <<routes, lookup>>

\* --------------------------------------------------------- the dispatcher
VARIABLES
  services,     \* Config.GRPCServices: a sequence of [name, isGRPC, timeout]
  req,          \* the inbound call: [side, service, segs, body, hasDeadline]
  dpc,          \* the position of the call inside ServeHTTP / HandleGRPCRequest
  dloc,         \* the handler's locals: [target, timeout, addr, conn, acq]
  ctx,          \* the call's context: [in, timer, fired]
  out,          \* the outbound backend call: [state, proto, n, status, msg, body, end]
  resp,         \* what the caller receives: [status, msg]
  inmsg,        \* the content of the inbound call: [path, rawq, headers, doc]
  wire,         \* the outbound call as the backend receives it
  reply,        \* the backend's answer: [headers, doc]
  answer,       \* the backend's answer as handed to the caller: [headers, doc]
  law           \* a document and headers taken through the converter and back

msgVars == <<inmsg, wire, reply, answer, law>>

dispVars == <<services, req, dpc, dloc, ctx, out, resp, msgVars>>

\* ------------------------------------------- HealthCheck and CloseAll
VARIABLES
  health,       \* the last HealthCheck(): [called, map], map from address to state name
  cpc,          \* the position of CloseAll(): idle, ranging, closed, returned
  ckey,         \* CloseAll: the key the Range callback is at
  cseen,        \* CloseAll: the keys the Range has visited
  cstart        \* history: the connection map when CloseAll() was called

opsVars == <<health, cpc, ckey, cseen, cstart>>

\* ------------------------------------------- the handlers' balancer maps
VARIABLES
  hbalancers,   \* HTTPHandler.balancers: route key to [backends, counter]
  gbalancers,   \* GRPCHandler.balancers: service name to [backends, counter]
  pick,         \* the last selection: [side, idx, addr, n], idx the route or service found
  resolvedTo    \* history: the calls resolved so far, per route index and per service name

keyVars == <<hbalancers, gbalancers, pick, resolvedTo>>

\* ------------------------------------------------------------------- main
VARIABLES
  mpc           \* where main() is: serving, in Shutdown, in GracefulStop, returning

vars == <<balVars, poolVars, routeVars, dispVars, opsVars, keyVars, mpc>>

CounterMod == 2 ^ CounterBits

\* atomic.AddUint32's arithmetic: addition modulo the counter's width.
AddUint32(c, d) == (c + d) % CounterMod

IndexOfNoDecrement(idx, n) == idx % n

\* index-1 on a uint32, then int(...) % len(b.backends). int is 64 bits wide: it
\* holds every uint32 value, so the conversion keeps the value.
IndexOf(idx, n) == ((idx - 1) % CounterMod) % n

IsEmptyNever(b) == FALSE

\* len(b.backends) == 0
IsEmpty(b) == b.len = 0

\* b.backends[i] with its bounds check against the header's len, and the % of
\* line 33, which panics on a zero length.
ElementAt(b, idx) ==
  IF b.len = 0 THEN PANIC
  ELSE LET i == IndexOf(idx, b.len)
       IN  IF i < Len(b.data) THEN b.data[i + 1] ELSE PANIC

\* NewRoundRobinBalancer(list)
NewRoundRobinBalancer(list) ==
  /\ backends = [data |-> list, len |-> Len(list)]
  /\ counter = 0
  /\ mu = [readers |-> {}, writer |-> "free"]
  /\ npc = [t \in Callers |-> "idle"]
  /\ index = [t \in Callers |-> 0]
  /\ upc = "idle"
  /\ unew = <<>>
  /\ hist = <<>>
  /\ installed = <<list>>

\* sync.RWMutex: RLock waits while a writer holds the lock or waits for it.
CanRLock(m) == m.writer = "free"
CanLockAlways(m) == TRUE

\* sync.RWMutex: Lock waits until the readers inside have left.
CanLock(m) == m.readers = {}

RUnlock(t) == mu' = [mu EXCEPT !.readers = @ \ {t}]

\* Calls of Next() in progress.
InFlight == {t \in Callers : npc[t] # "idle"}

\* The call returns addr to its caller. idx is the counter value it drew (0: none),
\* ep the number of lists installed so far, upd whether an UpdateBackends call
\* was in progress at the return.
Returned(addr, idx) ==
  hist' = Append(hist, [addr |-> addr, idx |-> idx, ep |-> Len(installed),
                        upd |-> upc # "idle"])

\* Next(), line 25: b.mu.RLock()
NextRLock(t) ==
  /\ npc[t] = "idle"
  /\ Len(hist) + Cardinality(InFlight) < MaxCalls
  /\ CanRLock(mu)
  /\ mu' = [mu EXCEPT !.readers = @ \cup {t}]
  /\ npc' = [npc EXCEPT ![t] = "rlocked"]
  /\ UNCHANGED <<backends, counter, index, upc, unew, hist, installed>>

\* Next(), lines 28-30: the empty list returns "" (and the deferred RUnlock runs)
NextEmpty(t) ==
  /\ npc[t] = "rlocked"
  /\ IsEmpty(backends)
  /\ Returned(EMPTY, 0)
  /\ RUnlock(t)
  /\ npc' = [npc EXCEPT ![t] = "idle"]
  /\ UNCHANGED <<backends, counter, index, upc, unew, installed>>

\* A read-modify-write in two instructions: the write of a caller is lost when
\* another caller is between its read and its write.
NextAddRacy(t) ==
  /\ npc[t] = "rlocked"
  /\ ~IsEmpty(backends)
  /\ counter' = IF \E u \in Callers \ {t} : npc[u] = "rlocked" THEN counter
                ELSE AddUint32(counter, 1)
  /\ index' = [index EXCEPT ![t] = AddUint32(counter, 1)]
  /\ npc' = [npc EXCEPT ![t] = "added"]
  /\ UNCHANGED <<backends, mu, upc, unew, hist, installed>>

\* Next(), line 32: index := atomic.AddUint32(&b.counter, 1)
NextAdd(t) ==
  /\ npc[t] = "rlocked"
  /\ ~IsEmpty(backends)
  /\ counter' = AddUint32(counter, 1)
  /\ index' = [index EXCEPT ![t] = counter']
  /\ npc' = [npc EXCEPT ![t] = "added"]
  /\ UNCHANGED <<backends, mu, upc, unew, hist, installed>>

\* Next(), line 33: return b.backends[int(index-1)%len(b.backends)], then RUnlock
NextReturn(t) ==
  /\ npc[t] = "added"
  /\ Returned(ElementAt(backends, index[t]), index[t])
  /\ RUnlock(t)
  /\ npc' = [npc EXCEPT ![t] = "idle"]
  /\ index' = [index EXCEPT ![t] = 0]
  /\ UNCHANGED <<backends, counter, upc, unew, installed>>

\* UpdateBackends(list), line 38: b.mu.Lock() is called and announces the writer
UpdateCall(list) ==
  /\ upc = "idle"
  /\ Len(installed) <= MaxUpdates
  /\ mu.writer = "free"
  /\ unew' = list
  /\ mu' = [mu EXCEPT !.writer = "pending"]
  /\ upc' = "waiting"
  /\ UNCHANGED <<backends, counter, npc, index, hist, installed>>

\* UpdateBackends, line 38: Lock() returns once no reader is inside
UpdateLock ==
  /\ upc = "waiting"
  /\ CanLock(mu)
  /\ mu' = [mu EXCEPT !.writer = "held"]
  /\ upc' = "locked"
  /\ UNCHANGED <<backends, counter, npc, index, unew, hist, installed>>

\* UpdateBackends, line 40: b.backends = backends; the slice header is several
\* words, written one after the other: first the data pointer ...
UpdateAssignData ==
  /\ upc = "locked"
  /\ backends' = [backends EXCEPT !.data = unew]
  /\ upc' = "data"
  /\ UNCHANGED <<counter, mu, npc, index, unew, hist, installed>>

\* ... then the length
UpdateAssignLen ==
  /\ upc = "data"
  /\ backends' = [backends EXCEPT !.len = Len(unew)]
  /\ upc' = "assigned"
  /\ UNCHANGED <<counter, mu, npc, index, unew, hist, installed>>

ResetValueKeep(c) == c

\* UpdateBackends, line 41: the value atomic.StoreUint32(&b.counter, 0) stores
ResetValue(c) == 0

\* UpdateBackends, line 41: atomic.StoreUint32(&b.counter, 0)
UpdateStore ==
  /\ upc = "assigned"
  /\ counter' = ResetValue(counter)
  /\ upc' = "stored"
  /\ UNCHANGED <<backends, mu, npc, index, unew, hist, installed>>

\* UpdateBackends, line 39: the deferred b.mu.Unlock(); the call returns
UpdateUnlock ==
  /\ upc = "stored"
  /\ mu' = [mu EXCEPT !.writer = "free"]
  /\ upc' = "idle"
  /\ installed' = Append(installed, unew)
  /\ UNCHANGED <<backends, counter, npc, index, unew, hist>>

NextCall(t) == NextRLock(t) \/ NextEmpty(t) \/ NextAdd(t) \/ NextReturn(t)

UpdateBackends ==
  \/ \E list \in BackendLists : UpdateCall(list)
  \/ UpdateLock
  \/ UpdateAssignData
  \/ UpdateAssignLen
  \/ UpdateStore
  \/ UpdateUnlock

\* ------------------------------------------------------ the connection pool
PoolAddrs == {"B1", "B2"}
ConnStates == {"IDLE", "CONNECTING", "READY", "TRANSIENT_FAILURE", "SHUTDOWN"}
NoArg == [addr |-> "", tls |-> FALSE]
\* via tells how the call ended: "reuse" (line 40), "new" (line 55, after the Load
\* found nothing), "replaced" (line 55, after a stale connection), "error" (line 51).
NoResult == [conn |-> 0, err |-> FALSE, via |-> "none"]

\* NewConnectionPool(maxMsgSize): no connection yet
NewConnectionPool ==
  /\ conns = <<>>
  /\ connections = [a \in PoolAddrs |-> 0]
  /\ gpc = [t \in Callers |-> "idle"]
  /\ garg = [t \in Callers |-> NoArg]
  /\ gconn = [t \in Callers |-> 0]
  /\ gstate = [t \in Callers |-> "none"]
  /\ gnew = [t \in Callers |-> 0]
  /\ gret = [t \in Callers |-> NoResult]

IsUsableLoose(state) == state # "SHUTDOWN"

IsUsableReadyOnly(state) == state = "READY"

\* GetConnection, line 39: state == Ready || state == Connecting || state == Idle
IsUsable(state) == state \in {"READY", "CONNECTING", "IDLE"}

\* The call of t returns r; its locals are gone.
GetReturn(t, r) ==
  /\ gret' = [gret EXCEPT ![t] = r]
  /\ gpc' = [gpc EXCEPT ![t] = "idle"]
  /\ garg' = [garg EXCEPT ![t] = NoArg]
  /\ gconn' = [gconn EXCEPT ![t] = 0]
  /\ gstate' = [gstate EXCEPT ![t] = "none"]
  /\ gnew' = [gnew EXCEPT ![t] = 0]

\* GetConnection(ctx, address, useTLS, skipVerify) is called; line 34:
\* p.connections.Load(address)
GetLoad(t, addr, useTLS) ==
  /\ gpc[t] = "idle"
  /\ garg' = [garg EXCEPT ![t] = [addr |-> addr, tls |-> useTLS]]
  /\ gconn' = [gconn EXCEPT ![t] = connections[addr]]
  /\ gret' = [gret EXCEPT ![t] = NoResult]
  /\ gpc' = [gpc EXCEPT ![t] = IF connections[addr] # 0 THEN "loaded" ELSE "create"]
  /\ UNCHANGED <<conns, connections, gstate, gnew>>

\* line 36: state := clientConn.GetState()
GetState(t) ==
  /\ gpc[t] = "loaded"
  /\ gstate' = [gstate EXCEPT ![t] = conns[gconn[t]].state]
  /\ gpc' = [gpc EXCEPT ![t] = "checked"]
  /\ UNCHANGED <<conns, connections, garg, gconn, gnew, gret>>

\* lines 39-41: a usable connection is returned
GetReuse(t) ==
  /\ gpc[t] = "checked"
  /\ IsUsable(gstate[t])
  /\ GetReturn(t, [conn |-> gconn[t], err |-> FALSE, via |-> "reuse"])
  /\ UNCHANGED <<conns, connections>>

\* line 44: clientConn.Close()
GetCloseStale(t) ==
  /\ gpc[t] = "checked"
  /\ ~IsUsable(gstate[t])
  /\ conns' = [conns EXCEPT ![gconn[t]].state = "SHUTDOWN"]
  /\ gpc' = [gpc EXCEPT ![t] = "closed"]
  /\ UNCHANGED <<connections, garg, gconn, gstate, gnew, gret>>

GetDeleteKeep(t) ==
  /\ gpc[t] = "closed"
  /\ connections' = connections
  /\ gpc' = [gpc EXCEPT ![t] = "create"]
  /\ UNCHANGED <<conns, garg, gconn, gstate, gnew, gret>>

\* line 45: p.connections.Delete(address)
GetDelete(t) ==
  /\ gpc[t] = "closed"
  /\ connections' = [connections EXCEPT ![garg[t].addr] = 0]
  /\ gpc' = [gpc EXCEPT ![t] = "create"]
  /\ UNCHANGED <<conns, garg, gconn, gstate, gnew, gret>>

\* createConnection: grpc.DialContext returns a new connection to the address,
\* with TLS credentials if useTLS and insecure ones if not (lines 72-80)
createConnection(addr, useTLS) == [addr |-> addr, state |-> "IDLE", tls |-> useTLS]

\* line 49, createConnection succeeds
GetCreate(t) ==
  /\ gpc[t] = "create"
  /\ Len(conns) < MaxConns
  /\ conns' = Append(conns, createConnection(garg[t].addr, garg[t].tls))
  /\ gnew' = [gnew EXCEPT ![t] = Len(conns) + 1]
  /\ gpc' = [gpc EXCEPT ![t] = "store"]
  /\ UNCHANGED <<connections, garg, gconn, gstate, gret>>

\* lines 49-52, createConnection fails: return nil, err
GetCreateFail(t) ==
  /\ gpc[t] = "create"
  /\ GetReturn(t, [conn |-> 0, err |-> TRUE, via |-> "error"])
  /\ UNCHANGED <<conns, connections>>

\* lines 54-55: p.connections.Store(address, conn); return conn, nil
GetStore(t) ==
  /\ gpc[t] = "store"
  /\ connections' = [connections EXCEPT ![garg[t].addr] = gnew[t]]
  /\ GetReturn(t, [conn |-> gnew[t], err |-> FALSE,
                   via |-> IF gconn[t] # 0 THEN "replaced" ELSE "new"])
  /\ UNCHANGED conns

GetConnection(t) ==
  \/ \E addr \in PoolAddrs : GetLoad(t, addr, FALSE)
  \/ GetState(t)
  \/ GetReuse(t)
  \/ GetCloseStale(t)
  \/ GetDelete(t)
  \/ GetCreate(t)
  \/ GetCreateFail(t)
  \/ GetStore(t)

\* What clientConn.GetState() can report next for an open connection: the
\* channel connects, becomes ready, fails, backs off and goes idle on its own.
NextStates(state) ==
  CASE state = "IDLE" -> {"CONNECTING"}
    [] state = "CONNECTING" -> {"READY", "TRANSIENT_FAILURE"}
    [] state = "READY" -> {"IDLE", "TRANSIENT_FAILURE"}
    [] state = "TRANSIENT_FAILURE" -> {"CONNECTING", "IDLE"}
    [] OTHER -> {}

\* The state of an open connection changes; a closed one stays SHUTDOWN.
ConnStateChange(c) ==
  /\ c \in 1..Len(conns)
  /\ \E s \in NextStates(conns[c].state) : conns' = [conns EXCEPT ![c].state = s]
  /\ UNCHANGED <<connections, gpc, garg, gconn, gstate, gnew, gret>>

\* ------------------------------------------------------------- the routes
PathSyms == {"a", "*"}
RequestMethods == {"GET", "POST", "PUT", "get"}
MethodLists == {<<>>, <<"GET">>, <<"GET", "POST">>}
RoutePaths == SeqsUpTo(PathSyms, MaxPathLen) \ {<<>>}
RequestPaths == SeqsUpTo(PathSyms, MaxPathLen)
RouteSet == [path : RoutePaths, methods : MethodLists]
RouteConfigs == SeqsUpTo(RouteSet, MaxRoutes)
NoKey == <<"", 0>>
\* A request with this path and this method, findRoute not called yet.
Request(path, method) ==
  [path |-> path, method |-> method, done |-> FALSE, found |-> FALSE, key |-> NoKey]

\* strings.HasPrefix(s, prefix)
HasPrefix(s, prefix) == Len(prefix) <= Len(s) /\ SubSeq(s, 1, Len(prefix)) = prefix

\* strings.HasSuffix(s, "*")
HasStarSuffix(s) == Len(s) >= 1 /\ s[Len(s)] = "*"

pathMatchesWhole(requestPath, routePath) ==
  IF HasStarSuffix(routePath)
  THEN HasPrefix(requestPath, SubSeq(routePath, 1, Len(routePath) - 1))
  ELSE requestPath = routePath

\* pathMatches(requestPath, routePath)
pathMatches(requestPath, routePath) ==
  IF HasStarSuffix(routePath)
  THEN HasPrefix(requestPath, SubSeq(routePath, 1, Len(routePath) - 1))
  ELSE HasPrefix(requestPath, routePath)

\* findRoute, lines 184-195: no method list, or one that holds the method
methodMatches(methods, method) ==
  Len(methods) > 0 => \E k \in 1..Len(methods) : methods[k] = method

\* fmt.Sprintf("route_%d", i)
routeKeyShared(i) == <<"route_", 0>>
routeKey(i) == <<"route_", i>>

RECURSIVE findRouteLast(_, _, _, _)
\* The loop without its return: the last match is kept.
findRouteLast(rs, path, method, i) ==
  IF i >= Len(rs) THEN [found |-> FALSE, key |-> NoKey]
  ELSE LET rest == findRouteLast(rs, path, method, i + 1)
       IN  IF rest.found THEN rest
           ELSE IF pathMatches(path, rs[i + 1].path) /\ methodMatches(rs[i + 1].methods, method)
                THEN [found |-> TRUE, key |-> routeKey(i)]
                ELSE rest

RECURSIVE findRoute(_, _, _, _)
\* findRoute(path, method): the loop of lines 177-199 from index i (0-based) on;
\* line 201 when it runs out
findRoute(rs, path, method, i) ==
  IF i >= Len(rs) THEN [found |-> FALSE, key |-> NoKey]
  ELSE IF ~pathMatches(path, rs[i + 1].path) THEN findRoute(rs, path, method, i + 1)
  ELSE IF ~methodMatches(rs[i + 1].methods, method) THEN findRoute(rs, path, method, i + 1)
  ELSE [found |-> TRUE, key |-> routeKey(i)]

\* NewHTTPHandler(cfg, pool): the configuration is kept as loaded
NewHTTPHandler(cfg) == routes = cfg

NoRoutes ==
  /\ NewHTTPHandler(<<>>)
  /\ lookup = Request(<<>>, "GET")

\* ServeHTTP, line 53: h.findRoute(r.URL.Path, r.Method) on the request
FindRoute ==
  /\ ~lookup.done
  /\ lookup' = [path |-> lookup.path, method |-> lookup.method, done |-> TRUE]
                  @@ findRoute(routes, lookup.path, lookup.method, 0)
  /\ UNCHANGED routes

\* --------------------------------------------------------- the dispatcher
\* time.Second units of the 30 * time.Second of http_handler.go
DefaultTimeout == 30
\* HTTPRoute.Timeout / GRPCService.Timeout in seconds; 0 is the empty string.
ConfiguredTimeouts == {0, 5}
ServiceNames == {"billing", "Billing"}
\* Request bodies: none, a JSON document, bytes that are no JSON document, a
\* body whose read fails; on the RPC side a structpb.Struct or another message.
HTTPBodies == {"empty", "json", "malformed", "unreadable"}
RPCBodies == {"struct", "unsupported"}
\* What a backend answers: success, or a failure of its own.
HTTPStatuses == {"200", "422"}
GRPCStatuses == {"OK", "AlreadyExists"}
ReplyBodies == {"json", "text"}
\* The message of a backend's own failure.
BackendMsg == "insufficient funds"

\* ------------------------------------------------------- message content
\* A JSON number that no float64 holds: 2^53 + 1, and the float64 next to it.
Big == "9007199254740993"
BigRounded == "9007199254740992"

\* A document: its top-level kind, the members of an object (name to <<kind,
\* literal>>), the literal of anything else. Kinds of bodies that are no JSON
\* document: empty, malformed, unreadable. A structpb.Struct has kind struct,
\* another proto.Message kind message.
Document(top, fields, lit) == [top |-> top, fields |-> fields, lit |-> lit]
NoFields == [n \in {} |-> <<"", "">>]
Object(fields) == Document("obj", fields, "")
Struct(fields) == Document("struct", fields, "")
Other(top, lit) == Document(top, NoFields, lit)
NoDoc == Other("none", "")

\* strconv.ParseFloat(lit, 64) as encoding/json applies it to a number
Float64Of(lit) == IF lit = Big THEN BigRounded ELSE lit

\* The Go value that encoding/json decodes a member to: float64 for a number.
Decoded(v) == IF v[1] = "num" THEN <<"num", Float64Of(v[2])>> ELSE v

UnmarshalLenient(doc) ==
  [err |-> FALSE,
   map |-> IF doc.top = "obj" THEN [n \in DOMAIN doc.fields |-> Decoded(doc.fields[n])]
           ELSE NoFields]

\* json.Unmarshal(bytes, &map[string]interface{}): an object is decoded member
\* by member, null leaves the map nil, anything else is an error.
Unmarshal(doc) ==
  IF doc.top = "obj"
  THEN [err |-> FALSE, map |-> [n \in DOMAIN doc.fields |-> Decoded(doc.fields[n])]]
  ELSE IF doc.top = "null"
  THEN [err |-> FALSE, map |-> NoFields]
  ELSE [err |-> TRUE, map |-> NoFields]

\* HTTPToGRPC, lines 42-47: requestData stays nil for a body of no bytes
requestData(doc) ==
  IF doc.top = "empty" THEN [err |-> FALSE, map |-> NoFields] ELSE Unmarshal(doc)

\* structpb.NewStruct(map): a nil map gives the Struct without fields
NewStruct(map) == Struct(map)

\* (*structpb.Struct).AsMap()
AsMap(st) == st.fields

\* json.Marshal(map): an object; NaN is no JSON number
Marshal(map) ==
  IF \E n \in DOMAIN map : map[n] = <<"num", "NaN">>
  THEN [err |-> TRUE, doc |-> NoDoc]
  ELSE [err |-> FALSE, doc |-> Object(map)]

\* Headers and metadata: name to the sequence of its values. http.Header holds
\* canonical names, metadata.MD lower-case ones.
NoHeaders == [n \in {} |-> <<>>]
ToLower(k) ==
  CASE k = "X-Id" -> "x-id"
    [] k = "Content-Type" -> "content-type"
    [] OTHER -> k
CanonicalMIMEHeaderKey(k) ==
  CASE k = "x-id" -> "X-Id"
    [] k = "content-type" -> "Content-Type"
    [] OTHER -> k

\* HTTPToGRPC, lines 62-65: md.Append(key, values...) for every header
MetadataOf(h) ==
  [k \in {ToLower(n) : n \in DOMAIN h} |-> h[CanonicalMIMEHeaderKey(k)]]

\* GRPCToHTTP, lines 114-121: Header.Add for every value of the incoming
\* metadata, then Header.Set("Content-Type", "application/json")
HeadersOf(md) ==
  [n \in {CanonicalMIMEHeaderKey(k) : k \in DOMAIN md} \cup {"Content-Type"} |->
     IF n = "Content-Type" THEN <<"application/json">> ELSE md[ToLower(n)]]

\* url.PathUnescape of one segment, as r.URL.Path holds it
Unescape(seg) == IF seg = "a%3Fb" THEN "a?b" ELSE seg

\* Where url.Parse ends the path of backendAddr + r.URL.Path: at the first "?"
CutAt(path) ==
  IF \E i \in 1..Len(path) : path[i] = "a?b"
  THEN CHOOSE i \in 1..Len(path) : path[i] = "a?b" /\ \A j \in 1..(i - 1) : path[j] # "a?b"
  ELSE 0

\* routeHTTPToHTTP, lines 85-88 and 99: targetURL is the backend address, the
\* decoded path and "?" with the raw query; http.NewRequest parses it again,
\* so that the path ends at the first "?" and the rest is the query.
targetURL(path, rawq) ==
  LET decoded == [i \in 1..Len(path) |-> Unescape(path[i])]
      cut == CutAt(decoded)
  IN  IF cut = 0
      THEN [path |-> path, rawq |-> rawq]
      ELSE [path |-> SubSeq(path, 1, cut - 1) \o <<"a">>,
            rawq |-> <<"b">> \o SubSeq(decoded, cut + 1, Len(decoded)) \o rawq]

\* What the modelled callers send and the modelled backends answer.
HeaderSets == {NoHeaders, [n \in {"X-Id"} |-> <<"1", "2">>]}
MetadataSets == {NoHeaders, [k \in {"x-id"} |-> <<"1", "2">>]}
ReplyHeaders == {NoHeaders, [n \in {"X-Id"} |-> <<"2", "1">>]}
JSONDocs ==
  {Object([n \in {"amount"} |-> <<"num", "100">>]),
   Object([n \in {"id"} |-> <<"num", Big>>]),
   Other("arr", "[1]"),
   Other("null", "null")}
ReplyDocs(b) ==
  IF b = "json"
  THEN {Object([n \in {"status"} |-> <<"str", "ok">>]),
        Object([n \in {"id"} |-> <<"num", Big>>]),
        Other("arr", "[1]")}
  ELSE {Other("malformed", "oops")}
Structs == {Struct(NoFields), Struct([n \in {"amount"} |-> <<"num", "100">>])}
ReplyStructs ==
  {Struct([n \in {"status"} |-> <<"str", "ok">>]),
   Struct([n \in {"ratio"} |-> <<"num", "NaN">>])}

\* The bytes of a body of that kind.
BodiesOf(kind) ==
  CASE kind = "json" -> JSONDocs
    [] kind = "struct" -> Structs
    [] kind = "unsupported" -> {Other("message", "")}
    [] kind = "malformed" -> {Other("malformed", "{")}
    [] OTHER -> {Other(kind, "")}

\* The messages that an inbound call r can carry.
Inbound(r) ==
  IF r.side = "http"
  THEN [path : IF r.segs THEN {<<"rpc", "billing", "Charge">>} ELSE {<<"api">>},
        rawq : {<<>>}, headers : HeaderSets, doc : BodiesOf(r.body)]
  ELSE [path : {<<r.service, "Charge">>}, rawq : {<<>>}, headers : MetadataSets,
        doc : BodiesOf(r.body)]

NoMsg == [path |-> <<>>, rawq |-> <<>>, headers |-> NoHeaders, doc |-> NoDoc]
NoWire == [proto |-> "", addr |-> EMPTY, method |-> "", path |-> <<>>, rawq |-> <<>>,
           headers |-> NoHeaders, doc |-> NoDoc]
NoReply == [headers |-> NoHeaders, doc |-> NoDoc]
NoLaw == [pos |-> "none", doc |-> NoDoc, headers |-> NoHeaders, st |-> NoDoc,
          md |-> NoHeaders, err |-> FALSE, back |-> NoDoc, hback |-> NoHeaders]

\* No message is on its way.
NoContent ==
  /\ inmsg = NoMsg
  /\ wire = NoWire
  /\ reply = NoReply
  /\ answer = NoReply
  /\ law = NoLaw

\* The requests of scenario A and what they carry: a path below the route's,
\* with or without an escaped "?", with or without a query.
RelayRequests ==
  [side : {"http"}, service : {""}, segs : {FALSE}, body : {"empty", "json", "malformed"},
   hasDeadline : {FALSE}]
RelayMessages(r) ==
  [path : {<<"api">>, <<"api", "a%3Fb">>}, rawq : {<<>>, <<"x=1">>},
   headers : HeaderSets, doc : BodiesOf(r.body)]

\* The call carries message m; nothing sent, nothing answered.
Carrying(m) ==
  /\ inmsg = m
  /\ wire = NoWire
  /\ reply = NoReply
  /\ answer = NoReply
  /\ law = NoLaw

NoReq == [side |-> "none", service |-> "", segs |-> TRUE, body |-> "empty", hasDeadline |-> FALSE]
NoLocals == [target |-> "", timeout |-> 0, addr |-> EMPTY, conn |-> 0, acq |-> 0]
\* context.Background-like: nothing cancelled, no timer
NoCtx == [in |-> "live", timer |-> 0, fired |-> FALSE]
NoOut == [state |-> "none", proto |-> "", n |-> 0, status |-> "", msg |-> "", body |-> "", end |-> ""]
NoResp == [status |-> "", msg |-> <<>>]

\* No call and no service: the dispatcher as the other specifications leave it.
NoDispatch ==
  /\ services = <<>>
  /\ req = NoReq
  /\ dpc = "none"
  /\ dloc = NoLocals
  /\ ctx = NoCtx
  /\ out = NoOut
  /\ resp = NoResp
  /\ NoContent

\* NewGRPCHandler(cfg, pool): the configuration is kept as loaded
NewGRPCHandler(svcs) == services = svcs

\* An inbound call arrives: nothing done for it yet.
Received(r) ==
  /\ req = r
  /\ dpc = "received"
  /\ dloc = NoLocals
  /\ ctx = NoCtx
  /\ out = NoOut
  /\ resp = NoResp
  /\ \E m \in Inbound(r) : Carrying(m)

\* The goroutine serving the call, as a caller of Next() and GetConnection().
Dispatcher == 1

RespondAndRetry(status, msg) ==
  /\ resp' = [status |-> status, msg |-> msg]
  /\ dpc' = IF out.state \in {"refused", "aborted"} THEN "resolved" ELSE "done"

\* The handler answers the caller and returns (http.Error and return; return
\* nil, status.Errorf(...)).
Respond(status, msg) ==
  /\ resp' = [status |-> status, msg |-> msg]
  /\ dpc' = "done"

\* Lower-case form of a service name.
Fold(name) == IF name = "Billing" THEN "billing" ELSE name

SameNameFold(a, b) == Fold(a) = Fold(b)

\* HandleGRPCRequest, line 210: GRPCServices[i].ServiceName == serviceName
SameName(a, b) == a = b

RECURSIVE findService(_, _, _)
\* HandleGRPCRequest, lines 208-214: the first service of that name from index
\* i (0-based) on; -1 for the nil serviceConfig
findService(svcs, name, i) ==
  IF i >= Len(svcs) THEN -1
  ELSE IF SameName(svcs[i + 1].name, name) THEN i
  ELSE findService(svcs, name, i + 1)

NoBackendNever(addr) == FALSE

\* ServeHTTP line 67, HandleGRPCRequest line 227: backendAddr == ""
NoBackend(addr) == addr = EMPTY

\* ServeHTTP, lines 53-57: findRoute, and 404 for no route. (The balancer of a
\* route that findRoute returned exists: NewHTTPHandler made one per route.)
ServeFind ==
  /\ dpc = "received"
  /\ req.side = "http"
  /\ FindRoute
  /\ IF ~lookup'.found
     THEN /\ Respond("404", <<"route not found">>)
          /\ UNCHANGED dloc
     ELSE /\ dpc' = "resolved"
          /\ dloc' = [dloc EXCEPT !.target = routes[lookup'.key[2] + 1].target,
                                  !.timeout = routes[lookup'.key[2] + 1].timeout]
          /\ UNCHANGED resp
  /\ UNCHANGED <<services, req, ctx, out>>
  /\ UNCHANGED <<balVars, poolVars>>
  /\ UNCHANGED msgVars

\* HandleGRPCRequest, lines 208-218: the service of that name, and NotFound for
\* none. (The balancer of a configured service exists: NewGRPCHandler made it.)
HandleFind ==
  /\ dpc = "received"
  /\ req.side = "grpc"
  /\ LET i == findService(services, req.service, 0)
     IN  IF i = -1
         THEN /\ Respond("NotFound", <<"service not found">>)
              /\ UNCHANGED dloc
         ELSE /\ dpc' = "resolved"
              /\ dloc' = [dloc EXCEPT !.target = IF services[i + 1].isGRPC THEN "grpc" ELSE "http",
                                      !.timeout = services[i + 1].timeout]
              /\ UNCHANGED resp
  /\ UNCHANGED <<services, req, ctx, out>>
  /\ UNCHANGED <<balVars, poolVars, routeVars>>
  /\ UNCHANGED msgVars

\* balancer.Next() (ServeHTTP line 66, HandleGRPCRequest line 226) is entered
SelectRLock ==
  /\ dpc = "resolved"
  /\ NextRLock(Dispatcher)
  /\ dpc' = "selecting"
  /\ UNCHANGED <<services, req, dloc, ctx, out, resp>>
  /\ UNCHANGED <<poolVars, routeVars>>
  /\ UNCHANGED msgVars

\* balancer.Next() draws its index
SelectAdd ==
  /\ dpc = "selecting"
  /\ NextAdd(Dispatcher)
  /\ UNCHANGED <<poolVars, routeVars, dispVars>>

\* balancer.Next() returns; lines 67-70 / 227-229: no backend ends the call
SelectReturn ==
  /\ dpc = "selecting"
  /\ NextEmpty(Dispatcher) \/ NextReturn(Dispatcher)
  /\ LET backendAddr == hist'[Len(hist')].addr
     IN  IF NoBackend(backendAddr)
         THEN /\ Respond(IF req.side = "http" THEN "503" ELSE "Unavailable",
                         <<"no backends available">>)
              /\ UNCHANGED dloc
         ELSE /\ dpc' = "selected"
              /\ dloc' = [dloc EXCEPT !.addr = backendAddr]
              /\ UNCHANGED resp
  /\ UNCHANGED <<services, req, ctx, out>>
  /\ UNCHANGED <<poolVars, routeVars>>
  /\ UNCHANGED msgVars

\* ctx.Done() is closed: the caller went away, its deadline passed, or the
\* timer of the call fired.
CtxDone(c) == c.in # "live" \/ c.fired

\* ctx.Err() as a status: context.Canceled or context.DeadlineExceeded
CtxErr(c) == IF c.in = "cancelled" THEN "Canceled" ELSE "DeadlineExceeded"

\* An outbound call leaves for the backend.
Sent(proto) ==
  out' = [out EXCEPT !.state = "inflight", !.proto = proto, !.n = @ + 1]

\* routeHTTPToHTTP, lines 91-118: the body is read (400 when that fails), the
\* proxy request is built on r.Context() and client.Do sends it under the
\* client's Timeout.
routeHTTPToHTTP ==
  /\ dpc = "selected"
  /\ req.side = "http"
  /\ dloc.target # "grpc"
  /\ IF req.body = "unreadable"
     THEN /\ Respond("400", <<"failed to read request body">>)
          /\ UNCHANGED <<ctx, out, wire>>
     ELSE /\ ctx' = [ctx EXCEPT !.timer = DefaultTimeout]
          /\ Sent("http")
          /\ LET url == targetURL(inmsg.path, inmsg.rawq)
             IN  wire' = [proto |-> "http", addr |-> dloc.addr, method |-> lookup.method,
                          path |-> url.path, rawq |-> url.rawq,
                          headers |-> inmsg.headers, doc |-> inmsg.doc]
          /\ dpc' = "invoking"
          /\ UNCHANGED resp
  /\ UNCHANGED <<services, req, dloc>>
  /\ UNCHANGED <<balVars, poolVars, routeVars>>
  /\ UNCHANGED <<inmsg, reply, answer, law>>

routeHTTPToGRPCAnyPath ==
  /\ dpc = "selected"
  /\ req.side = "http"
  /\ dloc.target = "grpc"
  /\ IF ~req.segs
     THEN /\ dpc' = "acquire"
          /\ UNCHANGED <<ctx, resp>>
     ELSE /\ ctx' = [ctx EXCEPT !.timer = DefaultTimeout]
          /\ IF req.body = "unreadable"
             THEN Respond("500", <<"protocol conversion failed", "failed to read request body">>)
             ELSE IF requestData(inmsg.doc).err
             THEN Respond("500", <<"protocol conversion failed", "failed to unmarshal request">>)
             ELSE dpc' = "acquire" /\ UNCHANGED resp
  /\ UNCHANGED <<services, req, dloc, out>>
  /\ UNCHANGED <<balVars, poolVars, routeVars>>
  /\ UNCHANGED msgVars

\* routeHTTPToGRPC, lines 146-157, and HTTPToGRPC, lines 35-53: the path needs
\* three segments (400), the context gets its timeout, the body is read and
\* parsed (an error of the converter is answered with 500, lines 160-164).
routeHTTPToGRPC ==
  /\ dpc = "selected"
  /\ req.side = "http"
  /\ dloc.target = "grpc"
  /\ IF ~req.segs
     THEN /\ Respond("400", <<"invalid path format">>)
          /\ UNCHANGED ctx
     ELSE /\ ctx' = [ctx EXCEPT !.timer = DefaultTimeout]
          /\ IF req.body = "unreadable"
             THEN Respond("500", <<"protocol conversion failed", "failed to read request body">>)
             ELSE IF requestData(inmsg.doc).err
             THEN Respond("500", <<"protocol conversion failed", "failed to unmarshal request">>)
             ELSE dpc' = "acquire" /\ UNCHANGED resp
  /\ UNCHANGED <<services, req, dloc, out>>
  /\ UNCHANGED <<balVars, poolVars, routeVars>>
  /\ UNCHANGED msgVars

\* GetConnection(ctx, backendAddr, false, false) is called: HTTPToGRPC line 56,
\* routeGRPCToGRPC line 244
AcquireLoad ==
  /\ \/ dpc = "acquire"
     \/ dpc = "selected" /\ req.side = "grpc" /\ dloc.target = "grpc"
  /\ GetLoad(Dispatcher, dloc.addr, FALSE)
  /\ dpc' = "acquiring"
  /\ dloc' = [dloc EXCEPT !.acq = @ + 1]
  /\ UNCHANGED <<services, req, ctx, out, resp>>
  /\ UNCHANGED <<balVars, routeVars>>
  /\ UNCHANGED msgVars

\* GetConnection goes on
AcquireStep ==
  /\ dpc = "acquiring"
  /\ \/ GetState(Dispatcher)
     \/ GetCloseStale(Dispatcher)
     \/ GetDelete(Dispatcher)
     \/ GetCreate(Dispatcher)
  /\ UNCHANGED <<balVars, routeVars, dispVars>>

\* GetConnection returns; HTTPToGRPC lines 57-59 with routeHTTPToGRPC lines
\* 160-164, routeGRPCToGRPC lines 245-247: its error ends the call
AcquireReturn ==
  /\ dpc = "acquiring"
  /\ \/ GetReuse(Dispatcher)
     \/ GetCreateFail(Dispatcher)
     \/ GetStore(Dispatcher)
  /\ IF gret'[Dispatcher].err
     THEN /\ IF req.side = "http"
             THEN Respond("500", <<"protocol conversion failed", "failed to get connection">>)
             ELSE Respond("Unavailable", <<"failed to connect to backend">>)
          /\ UNCHANGED dloc
     ELSE /\ dpc' = "acquired"
          /\ dloc' = [dloc EXCEPT !.conn = gret'[Dispatcher].conn]
          /\ UNCHANGED resp
  /\ UNCHANGED <<services, req, ctx, out>>
  /\ UNCHANGED <<balVars, routeVars>>
  /\ UNCHANGED msgVars

InvokeFromPrefix ==
  /\ dpc = "acquired"
  /\ Sent("grpc")
  /\ wire' = IF req.side = "http"
             THEN [proto |-> "grpc", addr |-> dloc.addr, method |-> "",
                   path |-> <<inmsg.path[1], inmsg.path[2]>>, rawq |-> <<>>,
                   headers |-> MetadataOf(inmsg.headers),
                   doc |-> NewStruct(requestData(inmsg.doc).map)]
             ELSE [proto |-> "grpc", addr |-> dloc.addr, method |-> "",
                   path |-> inmsg.path, rawq |-> <<>>,
                   headers |-> inmsg.headers, doc |-> inmsg.doc]
  /\ dpc' = "invoking"
  /\ UNCHANGED <<services, req, dloc, ctx, resp>>
  /\ UNCHANGED <<balVars, poolVars, routeVars>>
  /\ UNCHANGED <<inmsg, reply, answer, law>>

\* conn.Invoke(ctx, fullMethod, ..., grpc.WaitForReady(true)): HTTPToGRPC line
\* 73, routeGRPCToGRPC line 257
Invoke ==
  /\ dpc = "acquired"
  /\ Sent("grpc")
  /\ wire' = IF req.side = "http"
             THEN [proto |-> "grpc", addr |-> dloc.addr, method |-> "",
                   path |-> <<inmsg.path[2], inmsg.path[3]>>, rawq |-> <<>>,
                   headers |-> MetadataOf(inmsg.headers),
                   doc |-> NewStruct(requestData(inmsg.doc).map)]
             ELSE [proto |-> "grpc", addr |-> dloc.addr, method |-> "",
                   path |-> inmsg.path, rawq |-> <<>>,
                   headers |-> inmsg.headers, doc |-> inmsg.doc]
  /\ dpc' = "invoking"
  /\ UNCHANGED <<services, req, dloc, ctx, resp>>
  /\ UNCHANGED <<balVars, poolVars, routeVars>>
  /\ UNCHANGED <<inmsg, reply, answer, law>>

\* routeGRPCToHTTP line 277 with GRPCToHTTP lines 93-125: the message is turned
\* into JSON (Internal for a message of another type) and client.Do sends the
\* POST on the inbound context, with a client that has no Timeout.
routeGRPCToHTTP ==
  /\ dpc = "selected"
  /\ req.side = "grpc"
  /\ dloc.target = "http"
  /\ IF req.body = "unsupported"
     THEN /\ Respond("Internal", <<"protocol conversion failed", "unsupported message type">>)
          /\ UNCHANGED <<out, wire>>
     ELSE IF Marshal(AsMap(inmsg.doc)).err
     THEN /\ Respond("Internal", <<"protocol conversion failed", "failed to marshal request">>)
          /\ UNCHANGED <<out, wire>>
     ELSE /\ Sent("http")
          /\ wire' = [proto |-> "http", addr |-> dloc.addr, method |-> "POST",
                       path |-> inmsg.path, rawq |-> <<>>,
                       headers |-> HeadersOf(inmsg.headers),
                       doc |-> Marshal(AsMap(inmsg.doc)).doc]
          /\ dpc' = "invoking"
          /\ UNCHANGED resp
  /\ UNCHANGED <<services, req, dloc, ctx>>
  /\ UNCHANGED <<balVars, poolVars, routeVars>>
  /\ UNCHANGED <<inmsg, reply, answer, law>>

\* The HTTP backend answers with a status of its own.
BackendHTTPAnswer ==
  /\ out.state = "inflight"
  /\ out.proto = "http"
  /\ \E st \in HTTPStatuses, b \in ReplyBodies :
       /\ out' = [out EXCEPT !.state = "answered", !.status = st, !.body = b,
                             !.msg = IF st = "200" THEN "" ELSE BackendMsg]
       /\ \E h \in ReplyHeaders, d \in ReplyDocs(b) : reply' = [headers |-> h, doc |-> d]
  /\ UNCHANGED <<services, req, dpc, dloc, ctx, resp>>
  /\ UNCHANGED <<balVars, poolVars, routeVars>>
  /\ UNCHANGED <<inmsg, wire, answer, law>>

\* The HTTP backend cannot be reached: client.Do returns a transport error.
BackendRefuse ==
  /\ out.state = "inflight"
  /\ out.proto = "http"
  /\ out' = [out EXCEPT !.state = "refused"]
  /\ UNCHANGED <<services, req, dpc, dloc, ctx, resp>>
  /\ UNCHANGED <<balVars, poolVars, routeVars>>
  /\ UNCHANGED msgVars

\* The RPC backend answers with a status of its own. WaitForReady(true): the
\* call is sent only once the connection is READY.
BackendGRPCAnswer ==
  /\ out.state = "inflight"
  /\ out.proto = "grpc"
  /\ conns[dloc.conn].state = "READY"
  /\ \E st \in GRPCStatuses :
       /\ out' = [out EXCEPT !.state = "answered", !.status = st, !.body = "json",
                             !.msg = IF st = "OK" THEN "" ELSE BackendMsg]
       /\ IF st = "OK"
          THEN \E d \in ReplyStructs : reply' = [headers |-> NoHeaders, doc |-> d]
          ELSE reply' = NoReply
  /\ UNCHANGED <<services, req, dpc, dloc, ctx, resp>>
  /\ UNCHANGED <<balVars, poolVars, routeVars>>
  /\ UNCHANGED <<inmsg, wire, answer, law>>

\* The handler gives up on the call and answers while the outbound call is
\* still on its way.
AbortDetached ==
  /\ dpc = "invoking"
  /\ out.state = "inflight"
  /\ CtxDone(ctx)
  /\ Respond(CtxErr(ctx), <<"context">>)
  /\ UNCHANGED <<services, req, dloc, ctx, out>>
  /\ UNCHANGED <<balVars, poolVars, routeVars>>
  /\ UNCHANGED msgVars

\* The outbound call was made on the call's context (NewRequestWithContext,
\* http_handler.go line 99 and protocol_converter.go line 108; Invoke(ctx),
\* lines 73 and 257): once the context is done the call is given up and
\* client.Do / Invoke return ctx.Err().
Abort ==
  /\ dpc = "invoking"
  /\ out.state = "inflight"
  /\ CtxDone(ctx)
  /\ out' = [out EXCEPT !.state = "aborted", !.end = CtxErr(ctx)]
  /\ UNCHANGED <<services, req, dpc, dloc, ctx, resp>>
  /\ UNCHANGED <<balVars, poolVars, routeVars>>
  /\ UNCHANGED msgVars

\* A call is being served and its context is not done yet.
Serving == dpc \notin {"none", "done"} /\ ~CtxDone(ctx)

\* The caller goes away (client disconnect, RPC cancellation).
ClientCancel ==
  /\ Serving
  /\ ctx' = [ctx EXCEPT !.in = "cancelled"]
  /\ UNCHANGED <<services, req, dpc, dloc, out, resp>>
  /\ UNCHANGED <<balVars, poolVars, routeVars>>
  /\ UNCHANGED msgVars

\* The deadline that the RPC caller put on its call passes.
InboundDeadline ==
  /\ Serving
  /\ req.hasDeadline
  /\ ctx' = [ctx EXCEPT !.in = "expired"]
  /\ UNCHANGED <<services, req, dpc, dloc, out, resp>>
  /\ UNCHANGED <<balVars, poolVars, routeVars>>
  /\ UNCHANGED msgVars

\* The timeout set by the handler (context.WithTimeout, client.Timeout) passes.
TimerFire ==
  /\ Serving
  /\ ctx.timer # 0
  /\ ctx' = [ctx EXCEPT !.fired = TRUE]
  /\ UNCHANGED <<services, req, dpc, dloc, out, resp>>
  /\ UNCHANGED <<balVars, poolVars, routeVars>>
  /\ UNCHANGED msgVars

\* The channel of a pooled connection changes state while a call is served.
ChannelChange ==
  /\ dpc # "none"
  /\ \E c \in 1..MaxConns : ConnStateChange(c)
  /\ UNCHANGED <<balVars, routeVars, dispVars>>

\* routeHTTPToHTTP, lines 118-139: an error of client.Do is answered with 502,
\* an answer of the backend is copied to the caller, status and body.
finishHTTPToHTTP ==
  /\ dpc = "invoking"
  /\ req.side = "http"
  /\ out.proto = "http"
  /\ out.state \in {"answered", "refused", "aborted"}
  /\ IF out.state = "answered"
     THEN Respond(out.status, <<out.msg>>) /\ answer' = reply
     ELSE Respond("502", <<"backend request failed">>) /\ UNCHANGED answer
  /\ UNCHANGED <<services, req, dloc, ctx, out>>
  /\ UNCHANGED <<balVars, poolVars, routeVars>>
  /\ UNCHANGED <<inmsg, wire, reply, law>>

\* HTTPToGRPC lines 73-84 and routeHTTPToGRPC lines 160-169: an error of
\* Invoke is wrapped and answered with 500, a response with 200.
finishHTTPToGRPC ==
  /\ dpc = "invoking"
  /\ req.side = "http"
  /\ out.proto = "grpc"
  /\ out.state \in {"answered", "aborted"}
  /\ IF out.state = "answered" /\ out.status = "OK"
     THEN LET responseJSON == Marshal(AsMap(reply.doc))
          IN  IF responseJSON.err
              THEN /\ Respond("500", <<"protocol conversion failed",
                                       "failed to marshal response">>)
                   /\ UNCHANGED answer
              ELSE /\ Respond("200", <<>>)
                   /\ answer' = [headers |-> [n \in {"Content-Type"} |-> <<"application/json">>],
                                 doc |-> responseJSON.doc]
     ELSE /\ IF out.state = "answered"
             THEN Respond("500", <<"protocol conversion failed", "gRPC invocation failed",
                                   out.status, out.msg>>)
             ELSE Respond("500", <<"protocol conversion failed", "gRPC invocation failed",
                                   out.end>>)
          /\ UNCHANGED answer
  /\ UNCHANGED <<services, req, dloc, ctx, out>>
  /\ UNCHANGED <<balVars, poolVars, routeVars>>
  /\ UNCHANGED <<inmsg, wire, reply, law>>

\* routeGRPCToGRPC, lines 266-271: the error of Invoke is returned as it is.
finishGRPCToGRPC ==
  /\ dpc = "invoking"
  /\ req.side = "grpc"
  /\ out.proto = "grpc"
  /\ out.state \in {"answered", "aborted"}
  /\ IF out.state = "answered"
     THEN /\ Respond(out.status, IF out.status = "OK" THEN <<>> ELSE <<out.msg>>)
          /\ answer' = IF out.status = "OK" THEN reply ELSE answer
     ELSE /\ Respond(out.end, <<"context">>)
          /\ UNCHANGED answer
  /\ UNCHANGED <<services, req, dloc, ctx, out>>
  /\ UNCHANGED <<balVars, poolVars, routeVars>>
  /\ UNCHANGED <<inmsg, wire, reply, law>>

\* GRPCToHTTP lines 125-141 and routeGRPCToHTTP lines 278-293: every error of
\* the converter, a status other than 200 included, becomes Internal, and so
\* does a response that json.Unmarshal cannot decode into a map.
finishGRPCToHTTP ==
  /\ dpc = "invoking"
  /\ req.side = "grpc"
  /\ out.proto = "http"
  /\ out.state \in {"answered", "refused", "aborted"}
  /\ IF out.state # "answered"
     THEN Respond("Internal", <<"protocol conversion failed", "HTTP request failed">>)
     ELSE IF out.status # "200"
     THEN Respond("Internal", <<"protocol conversion failed",
                                "HTTP request failed with status", out.status, out.msg>>)
     ELSE IF Unmarshal(reply.doc).err
     THEN Respond("Internal", <<"failed to unmarshal response">>)
     ELSE Respond("OK", <<>>)
  /\ answer' = IF out.state = "answered" /\ out.status = "200" /\ ~Unmarshal(reply.doc).err
               THEN [headers |-> NoHeaders, doc |-> NewStruct(Unmarshal(reply.doc).map)]
               ELSE answer
  /\ UNCHANGED <<services, req, dloc, ctx, out>>
  /\ UNCHANGED <<balVars, poolVars, routeVars>>
  /\ UNCHANGED <<inmsg, wire, reply, law>>

\* ServeHTTP, from its first line to its return
ServeHTTP ==
  \/ ServeFind
  \/ routeHTTPToHTTP
  \/ routeHTTPToGRPC
  \/ finishHTTPToHTTP
  \/ finishHTTPToGRPC

\* HandleGRPCRequest, from its first line to its return
HandleGRPCRequest ==
  \/ HandleFind
  \/ routeGRPCToHTTP
  \/ finishGRPCToGRPC
  \/ finishGRPCToHTTP

\* The steps that both handlers take: Next(), GetConnection(), Invoke(), and
\* the return of an outbound call whose context is done.
Shared ==
  \/ SelectRLock
  \/ SelectAdd
  \/ SelectReturn
  \/ AcquireLoad
  \/ AcquireStep
  \/ AcquireReturn
  \/ Invoke
  \/ Abort

\* What happens around the handler: the backend, the caller, the clock.
Environment ==
  \/ BackendHTTPAnswer
  \/ BackendRefuse
  \/ BackendGRPCAnswer
  \/ ClientCancel
  \/ InboundDeadline
  \/ ChannelChange

\* ------------------------------------------- HealthCheck and CloseAll
NoHealth == [called |-> FALSE, map |-> <<>>]

\* Neither HealthCheck() nor CloseAll() was called.
NoOps ==
  /\ health = NoHealth
  /\ cpc = "idle"
  /\ ckey = ""
  /\ cseen = {}
  /\ cstart = [a \in PoolAddrs |-> 0]

\* The keys of the sync.Map.
Keys == {a \in PoolAddrs : connections[a] # 0}

GetStateConnecting(c) ==
  IF conns[c].state = "IDLE" THEN [conns[c] EXCEPT !.state = "CONNECTING"] ELSE conns[c]

\* conn.GetState() (line 108) reads the state and leaves the connection as
\* it is: the connection after the call.
GetStateOf(c) == conns[c]

\* HealthCheck(), lines 102-114: Range over the map, health[address] =
\* conn.GetState().String()
HealthCheck ==
  /\ cpc = "idle"
  /\ \A t \in Callers : gpc[t] = "idle"
  /\ health' = [called |-> TRUE,
                map |-> [a \in Keys |-> conns[connections[a]].state]]
  /\ conns' = [c \in DOMAIN conns |->
                IF c \in {connections[a] : a \in Keys} THEN GetStateOf(c) ELSE conns[c]]
  /\ UNCHANGED <<connections, gpc, garg, gconn, gstate, gnew, gret>>
  /\ UNCHANGED <<cpc, ckey, cseen, cstart>>

\* CloseAll() is called (main.go line 50, deferred): the Range starts
CloseAllCall ==
  /\ cpc = "idle"
  /\ cpc' = "ranging"
  /\ cseen' = {}
  /\ cstart' = connections
  /\ UNCHANGED <<health, ckey>>
  /\ UNCHANGED poolVars

CloseAllSkipClose(a) ==
  /\ cpc = "ranging"
  /\ a \in Keys \ cseen
  /\ ckey' = a
  /\ cpc' = "closed"
  /\ UNCHANGED <<health, cseen, cstart>>
  /\ UNCHANGED poolVars

\* CloseAll, lines 94-95: the callback is at key a and closes its connection
CloseAllClose(a) ==
  /\ cpc = "ranging"
  /\ a \in Keys \ cseen
  /\ ckey' = a
  /\ conns' = [conns EXCEPT ![connections[a]].state = "SHUTDOWN"]
  /\ cpc' = "closed"
  /\ UNCHANGED <<health, cseen, cstart>>
  /\ UNCHANGED <<connections, gpc, garg, gconn, gstate, gnew, gret>>

\* CloseAll, lines 96-97: p.connections.Delete(key); return true
CloseAllDelete ==
  /\ cpc = "closed"
  /\ connections' = [connections EXCEPT ![ckey] = 0]
  /\ cseen' = cseen \cup {ckey}
  /\ ckey' = ""
  /\ cpc' = "ranging"
  /\ UNCHANGED <<health, cstart>>
  /\ UNCHANGED <<conns, gpc, garg, gconn, gstate, gnew, gret>>

\* CloseAll: the Range has been at every key and CloseAll returns
CloseAllReturn ==
  /\ cpc = "ranging"
  /\ Keys \ cseen = {}
  /\ cpc' = "returned"
  /\ UNCHANGED <<health, ckey, cseen, cstart>>
  /\ UNCHANGED poolVars

CloseAll ==
  \/ CloseAllCall
  \/ \E a \in PoolAddrs : CloseAllClose(a)
  \/ CloseAllDelete
  \/ CloseAllReturn

\* ------------------------------------------- the handlers' balancer maps
NoPick == [side |-> "none", idx |-> -1, addr |-> EMPTY, n |-> 0]
NoCounts == [http |-> <<>>, grpc |-> <<>>]

\* No handler with balancers of its own.
NoKeys ==
  /\ hbalancers = <<>>
  /\ gbalancers = <<>>
  /\ pick = NoPick
  /\ resolvedTo = NoCounts

\* Config.Validate, lines 103-124: a service needs a name, a backend and an
\* address for every backend; a route needs a path and a backend. (The ports
\* and servers of lines 93-99 are taken as set.)
Validate(rs, svcs) ==
  /\ \A i \in 1..Len(svcs) :
       /\ svcs[i].name # ""
       /\ Len(svcs[i].backends) # 0
       /\ \A j \in 1..Len(svcs[i].backends) : svcs[i].backends[j] # ""
  /\ \A i \in 1..Len(rs) :
       /\ rs[i].path # <<>>
       /\ Len(rs[i].backends) # 0

\* balancer.NewRoundRobinBalancer(backends) as a value
Balancer(list) == [backends |-> [data |-> list, len |-> Len(list)], counter |-> 0]

\* NewHTTPHandler, lines 38-45: one balancer per route, under route_<i>
HTTPBalancers(rs) ==
  [k \in {routeKey(i) : i \in 0..(Len(rs) - 1)} |-> Balancer(rs[k[2] + 1].backends)]

\* NewGRPCHandler, lines 194-200: one balancer per service name; the loop
\* overwrites the entry of a name that comes again.
GRPCBalancers(svcs) ==
  [name \in {svcs[i].name : i \in 1..Len(svcs)} |->
     LET last == CHOOSE i \in 1..Len(svcs) :
                   /\ svcs[i].name = name
                   /\ \A j \in (i + 1)..Len(svcs) : svcs[j].name # name
     IN  Balancer(svcs[last].backends)]

\* Next() on balancer b, with no UpdateBackends beside it: the address
\* returned and the counter left.
NextOn(b) ==
  IF IsEmpty(b.backends)
  THEN [addr |-> EMPTY, counter |-> b.counter]
  ELSE LET idx == AddUint32(b.counter, 1)
       IN  [addr |-> ElementAt(b.backends, idx), counter |-> idx]

\* ServeHTTP, lines 53-70: the route of the request, its balancer, Next()
ServeSelect(path, method) ==
  /\ pick.n < MaxCalls
  /\ LET r == findRoute(routes, path, method, 0)
     IN  IF ~r.found
         THEN /\ pick' = [side |-> "http", idx |-> -1, addr |-> EMPTY, n |-> pick.n + 1]
              /\ UNCHANGED <<hbalancers, resolvedTo>>
         ELSE LET sel == NextOn(hbalancers[r.key])
              IN  /\ hbalancers' = [hbalancers EXCEPT ![r.key].counter = sel.counter]
                  /\ pick' = [side |-> "http", idx |-> r.key[2], addr |-> sel.addr,
                              n |-> pick.n + 1]
                  /\ resolvedTo' = [resolvedTo EXCEPT !.http[r.key[2] + 1] = @ + 1]
  /\ UNCHANGED <<gbalancers, routes, lookup, services>>

\* HandleGRPCRequest, lines 208-229: the service of that name, the balancer of
\* that name, Next()
HandleSelect(name) ==
  /\ pick.n < MaxCalls
  /\ LET i == findService(services, name, 0)
     IN  IF i = -1
         THEN /\ pick' = [side |-> "grpc", idx |-> -1, addr |-> EMPTY, n |-> pick.n + 1]
              /\ UNCHANGED <<gbalancers, resolvedTo>>
         ELSE LET sel == NextOn(gbalancers[name])
              IN  /\ gbalancers' = [gbalancers EXCEPT ![name].counter = sel.counter]
                  /\ pick' = [side |-> "grpc", idx |-> i, addr |-> sel.addr, n |-> pick.n + 1]
                  /\ resolvedTo' = [resolvedTo EXCEPT !.grpc[name] = @ + 1]
  /\ UNCHANGED <<hbalancers, routes, lookup, services>>

\* ------------------------------------------------------------------- main
\* main() has started the servers and waits for a signal (main.go line 127).
Running == mpc = "serving"

\* The HTTP server has no request in a handler; the RPC server has no call.
HTTPIdle == req.side # "http" \/ dpc \in {"none", "done"}
RPCIdle == req.side # "grpc" \/ dpc \in {"none", "done"}

\* lines 127-133: the signal arrives and httpServer.Shutdown(ctx) is called
\* with a context of 30 seconds. A handler that has set its own timeout of 30
\* seconds by then reaches it first ("shutdown_behind").
Signal ==
  /\ mpc = "serving"
  /\ mpc' = IF ctx.timer # 0 THEN "shutdown_behind" ELSE "shutdown"
  /\ UNCHANGED <<balVars, poolVars, routeVars, dispVars, opsVars, keyVars>>

\* lines 133-140: Shutdown returns, when no handler is running or when the 30
\* seconds have passed (its error is logged), and grpcServer.GracefulStop()
\* is called
ShutdownReturn(timedOut) ==
  /\ mpc \in {"shutdown", "shutdown_behind"}
  /\ \/ HTTPIdle
     \/ timedOut /\ (mpc = "shutdown_behind" => ctx.fired)
  /\ mpc' = "stopping"
  /\ UNCHANGED <<balVars, poolVars, routeVars, dispVars, opsVars, keyVars>>

\* lines 140-143: GracefulStop returns when no RPC is pending; main returns
\* and its deferred calls run
GracefulStopReturn ==
  /\ mpc = "stopping"
  /\ RPCIdle
  /\ mpc' = "stopped"
  /\ UNCHANGED <<balVars, poolVars, routeVars, dispVars, opsVars, keyVars>>

\* line 50, defer connectionPool.CloseAll(): the drain, step by step
Drain ==
  /\ mpc = "stopped"
  /\ CloseAll
  /\ UNCHANGED <<balVars, routeVars, dispVars, keyVars, mpc>>

\* main has returned: the process is gone, and its handlers with it
Exit ==
  /\ mpc = "stopped"
  /\ cpc = "returned"
  /\ mpc' = "exited"
  /\ UNCHANGED <<balVars, poolVars, routeVars, dispVars, opsVars, keyVars>>

\* ------------------------------------------------------- specifications
InitBal ==
  /\ \E list \in BackendLists : NewRoundRobinBalancer(list)
  /\ NewConnectionPool
  /\ NoRoutes
  /\ NoDispatch
  /\ NoOps
  /\ NoKeys
  /\ Running

\* Concurrent callers of Next() and one caller of UpdateBackends().
NextBal ==
  /\ (\E t \in Callers : NextCall(t)) \/ UpdateBackends
  /\ UNCHANGED <<poolVars, routeVars, dispVars, opsVars, keyVars, mpc>>
SpecBal == InitBal /\ [][NextBal]_vars

\* One goroutine calling Next() again and again: sequential calls.
NextSeq ==
  /\ (\E t \in SeqCaller : NextCall(t)) \/ UpdateBackends
  /\ UNCHANGED <<poolVars, routeVars, dispVars, opsVars, keyVars, mpc>>
SpecSeq == InitBal /\ [][NextSeq]_vars

InitPool ==
  /\ NewRoundRobinBalancer(<<>>)
  /\ NewConnectionPool
  /\ NoRoutes
  /\ NoDispatch
  /\ NoOps
  /\ NoKeys
  /\ Running

\* Concurrent callers of GetConnection() and the connections' own state changes.
NextPool ==
  /\ (\E t \in Callers : GetConnection(t)) \/ (\E c \in 1..MaxConns : ConnStateChange(c))
  /\ UNCHANGED <<balVars, routeVars, dispVars, opsVars, keyVars, mpc>>
SpecPool == InitPool /\ [][NextPool]_vars

InitRoute ==
  /\ NewRoundRobinBalancer(<<>>)
  /\ NewConnectionPool
  /\ \E cfg \in RouteConfigs : NewHTTPHandler(cfg)
  /\ \E path \in RequestPaths, method \in RequestMethods : lookup = Request(path, method)
  /\ NoDispatch
  /\ NoOps
  /\ NoKeys
  /\ Running

\* A request on a loaded configuration is resolved by findRoute.
NextRoute ==
  /\ FindRoute
  /\ UNCHANGED <<balVars, poolVars, dispVars, opsVars, keyVars, mpc>>
SpecRoute == InitRoute /\ [][NextRoute]_vars

\* The backend lists, routes and services of the dispatched calls.
DispatchBackends == {<<>>, <<"B1">>, <<"B1", "B2">>}
DispatchRoutes ==
  [path : {<<"a", "*">>}, methods : {<<"GET">>}, target : {"http", "grpc"},
   timeout : ConfiguredTimeouts]
DispatchServices == [name : {"billing"}, isGRPC : BOOLEAN, timeout : ConfiguredTimeouts]
HTTPRequests ==
  [side : {"http"}, service : {""}, segs : BOOLEAN, body : HTTPBodies, hasDeadline : {FALSE}]
RPCRequests ==
  [side : {"grpc"}, service : ServiceNames, segs : {TRUE}, body : RPCBodies,
   hasDeadline : BOOLEAN]

\* The pool between two calls: empty, or holding the connection that an earlier
\* call for B1 left, in the state its channel has reached since.
PoolBetweenCalls ==
  /\ \/ conns = <<>>
     \/ \E st \in ConnStates \ {"SHUTDOWN"} : conns = <<[addr |-> "B1", state |-> st, tls |-> FALSE]>>
  /\ connections = [a \in PoolAddrs |-> IF a = "B1" /\ conns # <<>> THEN 1 ELSE 0]
  /\ gpc = [t \in Callers |-> "idle"]
  /\ garg = [t \in Callers |-> NoArg]
  /\ gconn = [t \in Callers |-> 0]
  /\ gstate = [t \in Callers |-> "none"]
  /\ gnew = [t \in Callers |-> 0]
  /\ gret = [t \in Callers |-> NoResult]

\* One inbound call on a gateway with one route or one service, whose balancer
\* is the modelled one.
InitDispatch ==
  /\ \E list \in DispatchBackends : NewRoundRobinBalancer(list)
  /\ PoolBetweenCalls
  /\ \/ /\ \E r \in DispatchRoutes : NewHTTPHandler(<<r>>)
        /\ NewGRPCHandler(<<>>)
        /\ \E method \in {"GET", "POST"} : lookup = Request(<<"a", "a">>, method)
        /\ \E r \in HTTPRequests : Received(r)
     \/ /\ NewHTTPHandler(<<>>)
        /\ \E svc \in DispatchServices : NewGRPCHandler(<<svc>>)
        /\ lookup = Request(<<>>, "GET")
        /\ \E r \in RPCRequests : Received(r)
  /\ NoOps
  /\ NoKeys
  /\ Running

NextDispatch ==
  /\ ServeHTTP \/ HandleGRPCRequest \/ Shared \/ Environment \/ TimerFire
  /\ UNCHANGED <<opsVars, keyVars, mpc>>
SpecDispatch == InitDispatch /\ [][NextDispatch]_vars

\* The handler's own steps are taken when they can be, a timer that was set
\* fires, a caller's deadline passes; the backend and the caller owe nothing.
SpecDispatchFair ==
  /\ SpecDispatch
  /\ WF_vars((ServeHTTP \/ HandleGRPCRequest \/ Shared) /\ UNCHANGED <<opsVars, keyVars, mpc>>)
  /\ WF_vars(TimerFire /\ UNCHANGED <<opsVars, keyVars, mpc>>)
  /\ WF_vars(InboundDeadline /\ UNCHANGED <<opsVars, keyVars, mpc>>)

\* One call to an RPC backend on a gateway whose route or service configures
\* its backends with tls or without (Backend.TLS), the pool as between calls.
TLSRoutes ==
  [path : {<<"a", "*">>}, methods : {<<"GET">>}, target : {"grpc"},
   timeout : ConfiguredTimeouts, tls : BOOLEAN]
TLSServices == [name : {"billing"}, isGRPC : {TRUE}, timeout : ConfiguredTimeouts, tls : BOOLEAN]
InitTLS ==
  /\ \E list \in DispatchBackends \ {<<>>} : NewRoundRobinBalancer(list)
  /\ PoolBetweenCalls
  /\ \/ /\ \E r \in TLSRoutes : NewHTTPHandler(<<r>>)
        /\ NewGRPCHandler(<<>>)
        /\ lookup = Request(<<"a", "a">>, "GET")
        /\ \E r \in HTTPRequests : Received(r)
     \/ /\ NewHTTPHandler(<<>>)
        /\ \E svc \in TLSServices : NewGRPCHandler(<<svc>>)
        /\ lookup = Request(<<>>, "GET")
        /\ \E r \in RPCRequests : Received(r)
  /\ NoOps
  /\ NoKeys
  /\ Running
SpecTLS == InitTLS /\ [][NextDispatch]_vars

\* One call to an RPC backend is being served when the process is told to stop.
InitShutdown == InitTLS
NextShutdown ==
  \/ mpc # "exited" /\ NextDispatch
  \/ Signal
  \/ \E timedOut \in BOOLEAN : ShutdownReturn(timedOut)
  \/ GracefulStopReturn
  \/ Drain
  \/ Exit
SpecShutdown == InitShutdown /\ [][NextShutdown]_vars

\* The balancer after c calls of Next() on the list it was constructed with.
BalancerAfter(list, c) ==
  /\ backends = [data |-> list, len |-> Len(list)]
  /\ counter = c
  /\ mu = [readers |-> {}, writer |-> "free"]
  /\ npc = [t \in Callers |-> "idle"]
  /\ index = [t \in Callers |-> 0]
  /\ upc = "idle"
  /\ unew = <<>>
  /\ hist = <<>>
  /\ installed = <<list>>

\* A balancer whose counter is a few calls away from the largest value.
InitWrap ==
  /\ \E list \in BackendLists, c \in (CounterMod - 3)..(CounterMod - 1) :
       BalancerAfter(list, c)
  /\ NewConnectionPool
  /\ NoRoutes
  /\ NoDispatch
  /\ NoOps
  /\ NoKeys
  /\ Running

\* One goroutine calling Next() again and again, the list never replaced.
NextWrap ==
  /\ \E t \in SeqCaller : NextCall(t)
  /\ UNCHANGED <<poolVars, routeVars, dispVars, opsVars, keyVars, mpc>>
SpecWrap == InitWrap /\ [][NextWrap]_vars

\* The next request on the same route is served once the one before has been
\* answered (net/http calls ServeHTTP for it): nothing of the earlier call is
\* left but the balancer's counter.
Arrive ==
  /\ dpc = "done"
  /\ Len(hist) < MaxCalls
  /\ \E r \in RelayRequests, method \in {"GET", "POST"} :
       /\ req' = r
       /\ lookup' = Request(lookup.path, method)
       /\ \E m \in RelayMessages(r) : inmsg' = m
  /\ dpc' = "received"
  /\ dloc' = NoLocals
  /\ ctx' = NoCtx
  /\ out' = NoOut
  /\ resp' = NoResp
  /\ wire' = NoWire
  /\ reply' = NoReply
  /\ answer' = NoReply
  /\ UNCHANGED <<services, routes, law>>
  /\ UNCHANGED <<balVars, poolVars>>

\* Scenario A: one route to the HTTP backends B1 and B2, and requests that
\* match it, one after the other.
InitRelay ==
  /\ NewRoundRobinBalancer(<<"B1", "B2">>)
  /\ NewConnectionPool
  /\ NewHTTPHandler(<<[path |-> <<"a", "*">>, methods |-> <<>>, target |-> "http",
                       timeout |-> 0]>>)
  /\ NewGRPCHandler(<<>>)
  /\ \E method \in {"GET", "POST"} : lookup = Request(<<"a", "a">>, method)
  /\ \E r \in RelayRequests :
       /\ req = r
       /\ dpc = "received"
       /\ dloc = NoLocals
       /\ ctx = NoCtx
       /\ out = NoOut
       /\ resp = NoResp
       /\ \E m \in RelayMessages(r) : Carrying(m)
  /\ NoOps
  /\ NoKeys
  /\ Running
NextRelay ==
  /\ \/ ServeFind
     \/ SelectRLock
     \/ SelectAdd
     \/ SelectReturn
     \/ routeHTTPToHTTP
     \/ BackendHTTPAnswer
     \/ BackendRefuse
     \/ finishHTTPToHTTP
     \/ Arrive
  /\ UNCHANGED <<opsVars, keyVars, mpc>>
SpecRelay == InitRelay /\ [][NextRelay]_vars

\* The converter alone: a JSON document and a set of headers are translated as
\* HTTPToGRPC translates a request (lines 42-66), and the result is translated
\* back as a response is (line 79) and as GRPCToHTTP turns metadata into
\* headers (lines 114-121).
LawDocs ==
  {Object(NoFields),
   Object([n \in {"amount"} |-> <<"num", "100">>]),
   Object([n \in {"id"} |-> <<"num", Big>>]),
   Object([n \in {"name"} |-> <<"str", "ok">>]),
   Object([n \in {"flag"} |-> <<"bool", "true">>]),
   Object([n \in {"gone"} |-> <<"null", "null">>]),
   Object([n \in {"list"} |-> <<"arr", "[1]">>]),
   Object([n \in {"inner"} |-> <<"obj", "{}">>]),
   Object([n \in {"amount", "name"} |-> IF n = "amount" THEN <<"num", "100">>
                                         ELSE <<"str", "ok">>]),
   Other("arr", "[1]"), Other("null", "null"), Other("str", "ok"),
   Other("num", "100"), Other("bool", "true")}
LawHeaders ==
  {NoHeaders,
   [n \in {"X-Id"} |-> <<"1", "2">>],
   [n \in {"X-Id"} |-> <<"2", "1">>],
   [n \in {"Content-Type"} |-> <<"text/plain">>],
   [n \in {"X-Id", "Content-Type"} |-> IF n = "X-Id" THEN <<"1">> ELSE <<"text/plain">>]}

InitBridge ==
  /\ NewRoundRobinBalancer(<<>>)
  /\ NewConnectionPool
  /\ NoRoutes
  /\ services = <<>>
  /\ req = NoReq
  /\ dpc = "none"
  /\ dloc = NoLocals
  /\ ctx = NoCtx
  /\ out = NoOut
  /\ resp = NoResp
  /\ inmsg = NoMsg
  /\ wire = NoWire
  /\ reply = NoReply
  /\ answer = NoReply
  /\ \E d \in LawDocs, h \in LawHeaders :
       law = [NoLaw EXCEPT !.pos = "start", !.doc = d, !.headers = h]
  /\ NoOps
  /\ NoKeys
  /\ Running

\* HTTPToGRPC, lines 42-66: the structured value and the metadata
Translate ==
  /\ law.pos = "start"
  /\ LET data == requestData(law.doc)
     IN  law' = [law EXCEPT !.pos = "structured",
                            !.err = data.err,
                            !.st = IF data.err THEN NoDoc ELSE NewStruct(data.map),
                            !.md = IF data.err THEN NoHeaders ELSE MetadataOf(law.headers)]

\* HTTPToGRPC, line 79, and GRPCToHTTP, lines 114-121: the document and the
\* headers again
TranslateBack ==
  /\ law.pos = "structured"
  /\ ~law.err
  /\ LET json == Marshal(AsMap(law.st))
     IN  law' = [law EXCEPT !.pos = "back",
                            !.err = json.err,
                            !.back = json.doc,
                            !.hback = HeadersOf(law.md)]

NextBridge ==
  /\ Translate \/ TranslateBack
  /\ UNCHANGED <<balVars, poolVars, routeVars, opsVars, keyVars, mpc>>
  /\ UNCHANGED <<services, req, dpc, dloc, ctx, out, resp, inmsg, wire, reply, answer>>
SpecBridge == InitBridge /\ [][NextBridge]_vars

\* A gateway on a validated configuration of up to two routes or up to two
\* services, each with its backends, and calls served one after the other.
KeyBackendLists == {<<>>, <<"">>, <<"B1">>, <<"B1", "B2">>, <<"B2", "B3">>}
KeyRoutes ==
  SeqsUpTo([path : {<<"a">>, <<"a", "a">>}, methods : {<<>>, <<"GET">>},
            backends : KeyBackendLists], MaxRoutes)
KeyServices == SeqsUpTo([name : {"billing", "orders"}, backends : KeyBackendLists], MaxRoutes)

InitKeys ==
  /\ NewRoundRobinBalancer(<<>>)
  /\ NewConnectionPool
  /\ \E rs \in KeyRoutes, svcs \in KeyServices :
       /\ rs = <<>> \/ svcs = <<>>
       /\ Validate(rs, svcs)
       /\ NewHTTPHandler(rs)
       /\ hbalancers = HTTPBalancers(rs)
       /\ NewGRPCHandler(svcs)
       /\ gbalancers = GRPCBalancers(svcs)
       /\ resolvedTo = [http |-> [i \in 1..Len(rs) |-> 0],
                        grpc |-> [name \in DOMAIN GRPCBalancers(svcs) |-> 0]]
  /\ lookup = Request(<<>>, "GET")
  /\ pick = NoPick
  /\ req = NoReq
  /\ dpc = "none"
  /\ dloc = NoLocals
  /\ ctx = NoCtx
  /\ out = NoOut
  /\ resp = NoResp
  /\ NoContent
  /\ NoOps
  /\ Running
NextKeys ==
  /\ \/ \E path \in {<<"a">>, <<"a", "a">>}, method \in {"GET", "POST"} : ServeSelect(path, method)
     \/ \E name \in {"billing", "orders"} : HandleSelect(name)
  /\ UNCHANGED <<balVars, poolVars, opsVars, mpc>>
  /\ UNCHANGED <<req, dpc, dloc, ctx, out, resp, msgVars>>
SpecKeys == InitKeys /\ [][NextKeys]_vars

\* The pool used by one goroutine at a time: GetConnection calls, HealthCheck
\* calls, and at the end CloseAll, which no GetConnection call overlaps.
NextOps ==
  /\ \/ cpc = "idle" /\ GetConnection(Dispatcher) /\ UNCHANGED <<opsVars, keyVars, mpc>>
     \/ (\E c \in 1..MaxConns : ConnStateChange(c)) /\ UNCHANGED <<opsVars, keyVars, mpc>>
     \/ HealthCheck
     \/ (cpc # "idle" \/ \A t \in Callers : gpc[t] = "idle") /\ CloseAll
  /\ UNCHANGED <<balVars, routeVars, dispVars, keyVars, mpc>>
SpecOps == InitPool /\ [][NextOps]_vars

\* ------------------------------------------------------- balancer: claims
\* Position k (0-based) of the round-robin order over list L.
RoundRobin(L, k) == L[(k % Len(L)) + 1]

\* Entries of hist returned while e lists had been installed.
InEpoch(e) == {i \in 1..Len(hist) : hist[i].ep = e}

\* Counter values held by callers between line 32 and line 33.
HeldTickets == {index[t] : t \in {u \in Callers : npc[u] = "added"}}

\* C1: with N >= 1 backends and no UpdateBackends in between, the i-th sequential
\* call of Next() (i = 0, 1, ...) returns backends[i mod N], and every window of
\* N consecutive calls returns every position of the list exactly once.
C1_SequentialRoundRobin ==
  LET L == installed[1]
      N == Len(L)
      first == InEpoch(1)
  IN  N >= 1 =>
        /\ \A i \in first : hist[i].addr = RoundRobin(L, i - 1)
        /\ \A s \in first : (s + N - 1) \in first =>
             \A a \in Addrs :
               Cardinality({j \in s..(s + N - 1) : hist[j].addr = a})
                 = Cardinality({k \in 1..N : L[k] = a})

\* C1 witness: four sequential calls over three distinct backends, the fourth
\* back at the first backend.
C1_Witness ==
  /\ installed = << <<"B1", "B2", "B3">> >>
  /\ Len(hist) = 4
  /\ hist[3].addr = "B3"
  /\ hist[4].addr = "B1"

\* C6: with N >= 1 backends and no UpdateBackends, concurrent calls of Next() draw
\* pairwise different counter values, the values drawn are exactly 1..counter, and
\* once the calls have returned the multiset of returned addresses is that of as
\* many sequential calls.
C6_ConcurrentNoLostUpdate ==
  LET L == installed[1]
      N == Len(L)
      n == Len(hist)
  IN  (Len(installed) = 1 /\ upc = "idle" /\ N >= 1) =>
        /\ \A i, j \in 1..n : i # j => hist[i].idx # hist[j].idx
        /\ \A t \in Callers : npc[t] = "added" =>
             /\ \A i \in 1..n : hist[i].idx # index[t]
             /\ \A u \in Callers \ {t} : npc[u] = "added" => index[u] # index[t]
        /\ {hist[i].idx : i \in 1..n} \cup HeldTickets = 1..counter
        /\ InFlight = {} =>
             \A a \in Addrs :
               Cardinality({i \in 1..n : hist[i].addr = a})
                 = Cardinality({k \in 0..(n - 1) : RoundRobin(L, k) = a})

\* C6 witness: three concurrent calls have returned, one of them before a call
\* that drew a smaller counter value.
C6_Witness ==
  /\ Len(installed) = 1
  /\ upc = "idle"
  /\ InFlight = {}
  /\ Len(hist) >= 3
  /\ \E i, j \in 1..Len(hist) : i < j /\ hist[i].idx > hist[j].idx

\* C7: a Next() that returns while UpdateBackends(new) may be running returns
\* EMPTY, or the element of the complete old list or of the complete new list at
\* the index computed with the length of that same list.
C7_NoPartialList ==
  [][\A t \in Callers :
       (npc[t] # "idle" /\ npc'[t] = "idle") =>
         LET r == hist'[Len(hist')]
             lists == {installed[Len(installed)]}
                        \cup (IF upc # "idle" THEN {unew} ELSE {})
         IN  \/ r.addr = EMPTY
             \/ \E L \in lists :
                  /\ Len(L) > 0
                  /\ index[t] >= 1
                  /\ r.addr = RoundRobin(L, index[t] - 1)]_vars

\* C7 witness: a Next() returned an address while an UpdateBackends call with a
\* list of another length was waiting for the lock.
C7_Witness ==
  \E i \in 1..Len(hist) :
    /\ hist[i].upd
    /\ hist[i].addr \in Addrs
    /\ Len(installed) = 2
    /\ Len(installed[2]) # Len(installed[1])
    /\ Len(installed[2]) > 0

\* C8: once UpdateBackends(new) has returned, the counter values drawn since are
\* exactly 1..counter (the update left the counter at zero and nothing drawn
\* before survives), and the call that drew value j+1 returned new[j mod len(new)].
C8_UpdateResetsCounter ==
  LET e == Len(installed)
      L == installed[e]
      since == {i \in InEpoch(e) : Len(L) > 0}
  IN  (e >= 2 /\ upc \in {"idle", "waiting"}) =>
        /\ {hist[i].idx : i \in since} \cup HeldTickets = 1..counter
        /\ \A i, j \in since : i # j => hist[i].idx # hist[j].idx
        /\ \A i \in since : hist[i].addr = RoundRobin(L, hist[i].idx - 1)

\* C8 witness: two calls drew 1 and 2 before the update, and the first call after
\* it drew 1 again and returned the first backend of the new list.
C8_Witness ==
  /\ Len(installed) = 2
  /\ upc = "idle"
  /\ \E i, j \in 1..Len(hist) :
       /\ hist[i].ep = 1 /\ hist[i].idx = 2
       /\ hist[j].ep = 2 /\ hist[j].idx = 1
       /\ hist[j].addr = installed[2][1]
       /\ installed[2][1] # installed[1][1]

\* C9: a Next() that finds the list empty returns EMPTY at once, without a panic,
\* and leaves the counter as it was.
C9_EmptyReturnsEmpty ==
  [][\A t \in Callers :
       (npc[t] = "rlocked" /\ backends.len = 0 /\ npc'[t] # "rlocked") =>
         /\ npc'[t] = "idle"
         /\ Len(hist') = Len(hist) + 1
         /\ hist'[Len(hist')].addr = EMPTY
         /\ counter' = counter]_vars

\* C9 witness: the list was not empty at construction, an address was returned,
\* UpdateBackends made the list empty and a later Next() returned EMPTY.
C9_Witness ==
  /\ Len(installed) = 2
  /\ installed[1] # <<>>
  /\ installed[2] = <<>>
  /\ \E i, j \in 1..Len(hist) :
       /\ hist[i].ep = 1 /\ hist[i].addr \in Addrs
       /\ hist[j].ep = 2 /\ hist[j].addr = EMPTY

\* ------------------------------------------------- connection pool: claims
\* Connections dialled for address a.
DialledFor(a) == {c \in 1..Len(conns) : conns[c].addr = a}

Open(c) == conns[c].state # "SHUTDOWN"

\* C2: concurrent GetConnection calls for an address with no cached connection
\* create exactly one connection: as long as no connection of the address has
\* been closed, at most one was dialled for it and every caller got that one.
C2_SingleDial ==
  \A a \in PoolAddrs :
    (\A c \in DialledFor(a) : Open(c)) =>
      /\ Cardinality(DialledFor(a)) <= 1
      /\ \A t \in Callers :
           (gret[t].conn # 0 /\ conns[gret[t].conn].addr = a) => connections[a] = gret[t].conn

\* C3: between calls, every open connection the pool created is the one stored
\* in the map under its address, so at most one is open per address.
C3_OneOpenConnPerAddress ==
  (\A t \in Callers : gpc[t] = "idle") =>
    \A c \in 1..Len(conns) : Open(c) => connections[conns[c].addr] = c

\* C4: a GetConnection that observed its cached connection in a state other than
\* Ready, Idle and Connecting never returns that connection; when it returns
\* without an error, it has closed that connection, the map no longer holds it,
\* and the connection returned is one dialled during the call, stored under the
\* address.
C4_StaleReplaced ==
  [][\A t \in Callers :
       (/\ gpc[t] \in {"checked", "closed", "create", "store"}
        /\ gconn[t] # 0
        /\ gstate[t] \notin {"READY", "IDLE", "CONNECTING"}
        /\ gpc'[t] = "idle") =>
         /\ gret'[t].conn # gconn[t]
         /\ ~gret'[t].err =>
              /\ conns'[gconn[t]].state = "SHUTDOWN"
              /\ connections'[garg[t].addr] # gconn[t]
              /\ gret'[t].conn > gconn[t]
              /\ gret'[t].conn = gnew[t]
              /\ conns'[gret'[t].conn].addr = garg[t].addr
              /\ connections'[garg[t].addr] = gret'[t].conn]_vars

\* C4 witness: a call found the cached connection failed, closed it and returned
\* a new one that the map now holds.
C4_Witness ==
  \E t \in Callers :
    /\ gret[t].via = "replaced"
    /\ gret[t].conn = 2
    /\ conns[1].state = "SHUTDOWN"
    /\ conns[1].addr = conns[2].addr
    /\ connections[conns[2].addr] = 2

\* C5: a GetConnection that observed its cached connection Ready, Idle or
\* Connecting returns exactly that connection, and none of its steps (the Load,
\* the GetState, the return) dials, closes or touches the map.
C5_UsableReused ==
  [][\A t \in Callers :
       /\ (gpc[t] = "checked" /\ gstate[t] \in {"READY", "IDLE", "CONNECTING"}
             /\ gpc'[t] # "checked") =>
            /\ gpc'[t] = "idle"
            /\ gret'[t] = [conn |-> gconn[t], err |-> FALSE, via |-> "reuse"]
            /\ connections' = connections
            /\ conns' = conns
       /\ (gpc[t] \in {"idle", "loaded"} /\ gpc'[t] # gpc[t]) =>
            /\ connections' = connections
            /\ conns' = conns]_vars

\* C5 witness: a call returned the cached connection, which is open and still
\* the one in the map, while a second connection exists for the other address.
C5_Witness ==
  \E t \in Callers :
    /\ gret[t].via = "reuse"
    /\ gret[t].conn = 1
    /\ conns[1].state = "CONNECTING"
    /\ connections[conns[1].addr] = 1
    /\ Len(conns) = 2
    /\ conns[2].addr # conns[1].addr

\* --------------------------------------------------------- routes: claims
\* Indexes (0-based) of the routes that match the request.
Matching(rs, path, method) ==
  {i \in 0..(Len(rs) - 1) :
     pathMatches(path, rs[i + 1].path) /\ methodMatches(rs[i + 1].methods, method)}

\* C10: findRoute returns the matching route of the smallest configuration
\* index, whatever the later routes are, and no route only when none matches.
C10_FirstMatchWins ==
  lookup.done =>
    LET m == Matching(routes, lookup.path, lookup.method)
    IN  /\ lookup.found <=> m # {}
        /\ lookup.found =>
             \E i \in m : lookup.key = <<"route_", i>> /\ \A j \in m : i <= j

\* C10 witness: routes ["a*", "aa"], any method; the request for "aa" resolved
\* to route 0 although route 1 matches too.
C10_Witness ==
  /\ routes = <<[path |-> <<"a", "*">>, methods |-> <<>>],
                [path |-> <<"a", "a">>, methods |-> <<>>]>>
  /\ lookup.path = <<"a", "a">>
  /\ lookup.done
  /\ lookup.found
  /\ lookup.key = <<"route_", 0>>
  /\ Matching(routes, lookup.path, lookup.method) = {0, 1}

\* The request path starts with the symbols of p, compared one by one.
StartsWith(path, p) ==
  /\ Len(p) <= Len(path)
  /\ \A k \in 1..Len(p) : path[k] = p[k]

\* The matching rule as the registry states it, on one route.
RuleMatches(route, path, method) ==
  LET n == Len(route.path)
      star == n >= 1 /\ route.path[n] = "*"
  IN  /\ \/ star /\ StartsWith(path, [k \in 1..(n - 1) |-> route.path[k]])
         \/ ~star /\ StartsWith(path, route.path)
      /\ \/ route.methods = <<>>
         \/ \E k \in DOMAIN route.methods : route.methods[k] = method

NoRouteMatches ==
  /\ req.side = "http"
  /\ \A i \in 1..Len(routes) : ~RuleMatches(routes[i], lookup.path, lookup.method)
NoServiceNamed ==
  /\ req.side = "grpc"
  /\ \A i \in 1..Len(services) : services[i].name # req.service

\* Calls of Next() made for the call, the one in progress included.
Selections == Len(hist) + (IF npc[Dispatcher] # "idle" THEN 1 ELSE 0)

\* C12: a call that resolves to no route (HTTP) or to no service of exactly that
\* name (RPC) ends FAILED with 404 / NotFound, and no backend is selected, no
\* connection acquired and no backend invoked for it.
C12_NotFoundEndsCall ==
  (dpc \notin {"none", "received"} /\ (NoRouteMatches \/ NoServiceNamed)) =>
    /\ dpc = "done"
    /\ resp.status = IF req.side = "http" THEN "404" ELSE "NotFound"
    /\ Selections = 0
    /\ dloc.acq = 0
    /\ out.n = 0

\* C12 witness: the RPC call names "Billing", the configured service is
\* "billing"; the call ended with NotFound.
C12_Witness ==
  /\ req.side = "grpc"
  /\ req.service = "Billing"
  /\ Len(services) = 1
  /\ services[1].name = "billing"
  /\ dpc = "done"
  /\ resp.status = "NotFound"

\* C13: when the selector returns EMPTY, the call ends FAILED with 503 /
\* Unavailable and neither a connection acquisition nor a backend invocation
\* happens for it.
C13_EmptyEndsCall ==
  (Len(hist) >= 1 /\ hist[1].addr = EMPTY) =>
    /\ dpc = "done"
    /\ resp.status = IF req.side = "http" THEN "503" ELSE "Unavailable"
    /\ dloc.acq = 0
    /\ out.n = 0

\* C13 witness: an HTTP request matched the route, whose backend list is empty,
\* and was answered with 503.
C13_Witness ==
  /\ req.side = "http"
  /\ lookup.found
  /\ backends.len = 0
  /\ Len(hist) = 1
  /\ hist[1].addr = EMPTY
  /\ dpc = "done"
  /\ resp.status = "503"

\* C14: when the connection acquisition fails, the call ends FAILED with a
\* gateway-unavailable failure (502 or 503 / Unavailable) on both paths that use
\* the pool, and is not retried: one selection, one acquisition, no invocation.
C14_AcquireFailureUnavailable ==
  (dpc = "done" /\ gret[Dispatcher].err) =>
    /\ resp.status \in {"502", "503", "Unavailable"}
    /\ Selections = 1
    /\ dloc.acq = 1
    /\ out.n = 0

\* C15: a call calls Next() at most once, acquires at most one connection and
\* invokes at most one backend, whatever fails.
C15_NoRetry ==
  /\ Selections <= 1
  /\ dloc.acq <= 1
  /\ out.n <= 1

\* C15 witness: the backend call failed (connection refused) and the call
\* ended FAILED after one selection and one invocation.
C15_Witness ==
  /\ dpc = "done"
  /\ out.state = "refused"
  /\ resp.status = "502"
  /\ Len(hist) = 1
  /\ out.n = 1

\* The statuses the gateway gives to failures of its own.
GenericStatuses == {"500", "502", "503", "Internal", "Unavailable"}
\* The backend answered with a failure of its own.
BackendFailed == out.state = "answered" /\ out.status \notin {"200", "OK"}
Range(f) == {f[k] : k \in DOMAIN f}

\* C16: on each path, when the backend reports a failure of its own, the
\* failure delivered carries the backend's status and message: the status is
\* the backend's where caller and backend speak the same protocol and is in no
\* case a generic gateway status, and the message holds the backend's message.
C16_BackendFailurePropagated ==
  (dpc = "done" /\ BackendFailed) =>
    /\ BackendMsg \in Range(resp.msg)
    /\ resp.status \notin GenericStatuses
    /\ (req.side = out.proto => resp.status = out.status)

\* C17: every call eventually reaches a terminal state.
C17_CallTerminates == <>(dpc = "done")

\* The statuses that tell the caller of a timeout.
TimeoutStatuses == {"504", "DeadlineExceeded"}

\* C18: when the deadline passes while the backend call is in flight, the call
\* is given up and the caller receives a timeout failure.
C18_DeadlineReported ==
  (dpc = "done" /\ out.state = "aborted" /\ out.end = "DeadlineExceeded") =>
    resp.status \in TimeoutStatuses

\* C19: the deadline under which the backend call is made is the timeout
\* configured on the matched route or service, and the default without one.
C19_ConfiguredDeadline ==
  out.n > 0 =>
    ctx.timer = IF dloc.timeout # 0 THEN dloc.timeout ELSE DefaultTimeout

\* C20: in no state is the outbound call still in flight once the inbound call
\* has terminated, in particular after its cancellation.
C20_NoOutboundAfterReturn ==
  dpc = "done" => out.state # "inflight"

\* C20 witness: the caller went away while the backend call was in flight; the
\* backend call was given up and the call ended.
C20_Witness ==
  /\ dpc = "done"
  /\ ctx.in = "cancelled"
  /\ out.n = 1
  /\ out.state = "aborted"
  /\ out.end = "Canceled"

\* ------------------------------------------------- claims C21 and later
\* The call ended with a success status.
Success == dpc = "done" /\ resp.status \in {"200", "OK"}

\* The registry resolved the call: a route was found, a service of that name
\* exists.
Resolved ==
  \/ req.side = "http" /\ lookup.done /\ lookup.found
  \/ req.side = "grpc" /\ \E i \in 1..Len(services) : services[i].name = req.service

\* C21: a call reaches SUCCESS only after resolution, backend selection and
\* connection acquisition from the pool, in this order; a stage is entered only
\* when every stage before it succeeded.
C21_StagesInOrder ==
  /\ Selections > 0 => (dpc # "received" /\ Resolved)
  /\ dloc.acq > 0 => (Len(hist) = 1 /\ ~NoBackend(hist[1].addr))
  /\ out.n > 0 => (dloc.acq = 1 /\ ~gret[Dispatcher].err /\ dloc.conn # 0)
  /\ Success => out.n = 1

\* The place (1-based) of address a in list L.
PlaceOf(L, a) == CHOOSE k \in 1..Len(L) : L[k] = a
Distinct(L) == \A i, j \in 1..Len(L) : L[i] = L[j] => i = j

\* C29: the order stays cyclic across the wraparound of the counter: for a list
\* of N distinct backends, N not dividing the counter's range, every Next()
\* returns an element of the list (the index lies in 0..N-1) and each return is
\* the successor, in list order, of the return before it.
C29_CyclicAcrossWrap ==
  LET L == installed[1]
      N == Len(L)
  IN  (N >= 1 /\ Distinct(L) /\ CounterMod % N # 0) =>
        /\ \A i \in 1..Len(hist) : hist[i].addr \in {L[k] : k \in 1..N}
        /\ \A i \in 1..(Len(hist) - 1) :
             hist[i + 1].addr = L[(PlaceOf(L, hist[i].addr) % N) + 1]

\* C30: a connection that GetConnection returns successfully is not closed at
\* the moment it is returned.
C30_ReturnedConnOpen ==
  [][\A t \in Callers :
       (gpc[t] # "idle" /\ gpc'[t] = "idle" /\ ~gret'[t].err) =>
         conns'[gret'[t].conn].state # "SHUTDOWN"]_vars

C28_CloseAllDrains ==
  cpc = "returned" =>
    /\ \A a \in PoolAddrs : connections[a] = 0
    /\ \A a \in PoolAddrs : cstart[a] # 0 => conns[cstart[a]].state = "SHUTDOWN"

\* C28 witness: CloseAll returned after it found connections for B1 and B2.
C28_Witness ==
  /\ cpc = "returned"
  /\ cstart["B1"] # 0
  /\ cstart["B2"] # 0
  /\ cseen = {"B1", "B2"}

\* The call is on a route to an RPC backend and routeHTTPToGRPC has read and
\* parsed its body.
Translated ==
  /\ req.side = "http"
  /\ dloc.target = "grpc"
  /\ req.segs
  /\ dloc.addr # EMPTY
  /\ dpc # "selected"
  /\ req.body # "unreadable"

\* C26: in the translation of an HTTP body for an RPC backend, a body of no
\* bytes becomes the document without members and is no error, while a body
\* that is no well-formed JSON ends the call with a failure that names the
\* malformed payload, before any connection is acquired and before any backend
\* is invoked.
C26_MalformedEndsCall ==
  /\ (Translated /\ inmsg.doc.top = "malformed") =>
       /\ dpc = "done"
       /\ resp.status \in {"400", "500"}
       /\ Len(resp.msg) = 2
       /\ resp.msg[2] = "failed to unmarshal request"
       /\ dloc.acq = 0
       /\ out.n = 0
  /\ (Translated /\ inmsg.doc.top = "empty") =>
       /\ dpc = "acquire" \/ dloc.acq = 1
       /\ wire # NoWire => wire.doc = Struct(NoFields)
       /\ \A i \in 1..Len(resp.msg) : resp.msg[i] # "failed to unmarshal request"

\* C26 witness: a call with a malformed body ended with 500, nothing acquired
\* and nothing sent.
C26_Witness ==
  /\ Translated
  /\ inmsg.doc.top = "malformed"
  /\ dpc = "done"
  /\ resp.status = "500"
  /\ dloc.acq = 0
  /\ out.n = 0

\* The call is on a route to an RPC backend, with a path of three segments
\* and a JSON object as its body.
ObjectForRPC ==
  /\ req.side = "http"
  /\ dloc.target = "grpc"
  /\ Len(inmsg.path) = 3
  /\ inmsg.doc.top = "obj"

\* A member whose value a float64 holds exactly.
Exact(v) == v[1] = "num" => Float64Of(v[2]) = v[2]

StructForHTTP ==
  /\ req.side = "grpc"
  /\ dloc.target = "http"
  /\ inmsg.doc.top = "struct"

\* C24: a call for a service with an HTTP backend makes one POST to
\* <backend>/<service>/<method> with the payload as JSON, and the JSON document
\* that the backend answers is the caller's result, same members, same values.
C24_ForeignHTTPCall ==
  StructForHTTP =>
    /\ out.n <= 1
    /\ wire # NoWire =>
         /\ wire.proto = "http"
         /\ wire.method = "POST"
         /\ wire.addr = dloc.addr
         /\ wire.path = inmsg.path
         /\ wire.doc = Object(inmsg.doc.fields)
    /\ (dpc = "done" /\ out.state = "answered" /\ out.status = "200" /\ out.body = "json") =>
         /\ resp.status = "OK"
         /\ answer.doc.top = "struct"
         /\ reply.doc.top = "obj"
         /\ answer.doc.fields = reply.doc.fields

\* C22: on a route to the HTTP backends B1 and B2, the first request goes to
\* B1 and the second to B2, the backend receives the caller's method, path,
\* query, headers and body as they came, and the caller receives the backend's
\* status, headers and body as they came.
C22_RelayedUnchanged ==
  /\ Len(hist) >= 1 => hist[1].addr = "B1"
  /\ Len(hist) >= 2 => hist[2].addr = "B2"
  /\ wire # NoWire =>
       /\ wire.proto = "http"
       /\ wire.addr = hist[Len(hist)].addr
       /\ wire.method = lookup.method
       /\ wire.path = inmsg.path
       /\ wire.rawq = inmsg.rawq
       /\ wire.headers = inmsg.headers
       /\ wire.doc = inmsg.doc
  /\ (dpc = "done" /\ out.state = "answered") =>
       /\ resp.status = out.status
       /\ answer = reply

\* The headers that are not the converter's own Content-Type.
Carried(h) == DOMAIN h \ {"Content-Type"}

\* C25: every JSON document and every set of headers, translated to the
\* structured value and the metadata and back, come back as they were: the
\* same members, nesting and values, the same header names with the same
\* values in the same order.
C25_RoundTrip ==
  /\ law.pos # "start" => ~law.err
  /\ law.pos = "back" =>
       /\ law.back = law.doc
       /\ Carried(law.hback) = Carried(law.headers)
       /\ \A n \in Carried(law.headers) : law.hback[n] = law.headers[n]

\* ------------------------------------------------- claims C31 and later
\* C31: when two calls replace the same failed connection, the Delete of one
\* never takes from the map a connection that the other has stored since: the
\* entry it removes is the stale connection it loaded, or there is none.
C31_DeleteOnlyStale ==
  [][\A t \in Callers :
       (gpc[t] = "closed" /\ gpc'[t] = "create") =>
         connections[garg[t].addr] \in {0, gconn[t]}]_vars

\* C35: an HTTP request on a route to an RPC backend whose path has fewer than
\* three segments ends with 400, and no connection is acquired and no backend
\* invoked for it.
C35_ShortPathBadRequest ==
  (/\ req.side = "http"
   /\ dloc.target = "grpc"
   /\ Len(inmsg.path) < 3
   /\ dloc.addr # EMPTY
   /\ dpc # "selected") =>
     /\ dpc = "done"
     /\ resp.status = "400"
     /\ dloc.acq = 0
     /\ out.n = 0
     /\ wire = NoWire

\* C35 witness: the request for /api on a route to an RPC backend was answered
\* 400 after the backend was selected, with nothing acquired and nothing sent.
C35_Witness ==
  /\ req.side = "http"
  /\ dloc.target = "grpc"
  /\ inmsg.path = <<"api">>
  /\ dloc.addr = "B1"
  /\ dpc = "done"
  /\ resp.status = "400"
  /\ dloc.acq = 0
  /\ out.n = 0

ResolvedBackends ==
  IF pick.side = "http" THEN routes[pick.idx + 1].backends ELSE services[pick.idx + 1].backends
SetOf(list) == {list[j] : j \in 1..Len(list)}

\* C32: whenever a call has resolved a route or a service and a backend
\* address was selected for it, the address is one of the backends the
\* configuration gives that route or service, services of equal name included.
C32_SelectedFromOwnSet ==
  (pick.idx >= 0 /\ pick.addr # EMPTY) => pick.addr \in SetOf(ResolvedBackends)

\* C33: on a configuration Validate accepts, a call that has resolved its
\* route or service is never left without a backend address.
C33_ValidatedAlwaysSelects ==
  pick.idx >= 0 => pick.addr # EMPTY

\* C34: a selection advances the counter of the balancer of the route or
\* service it resolved by exactly one and leaves every other balancer, and
\* every backend list, as it was; so each balancer's counter is the number of
\* calls resolved to its route or service, and the address selected is the
\* one at that position of its list.
C34_SelectorPerKey ==
  /\ \A i \in 1..Len(routes) :
       /\ hbalancers[routeKey(i - 1)].counter = resolvedTo.http[i] % CounterMod
       /\ hbalancers[routeKey(i - 1)].backends.data = routes[i].backends
  /\ \A name \in DOMAIN gbalancers :
       gbalancers[name].counter = resolvedTo.grpc[name] % CounterMod
  /\ (pick.side = "http" /\ pick.idx >= 0) =>
       pick.addr = ElementAt(hbalancers[routeKey(pick.idx)].backends,
                             resolvedTo.http[pick.idx + 1] % CounterMod)
  /\ (pick.side = "grpc" /\ pick.idx >= 0) =>
       pick.addr = ElementAt(gbalancers[services[pick.idx + 1].name].backends,
                             resolvedTo.grpc[services[pick.idx + 1].name] % CounterMod)
C34_Witness ==
  /\ Len(routes) = 2
  /\ pick.side = "http"
  /\ pick.idx = 1
  /\ resolvedTo.http = <<1, 2>>
  /\ hbalancers[routeKey(0)].counter = 1
  /\ hbalancers[routeKey(1)].counter = 2
  /\ routes[2].backends = <<"B1", "B2">>
  /\ pick.addr = "B2"

\* Backend.TLS of the backends of the route or service of the call
ConfiguredTLS == IF req.side = "http" THEN routes[1].tls ELSE services[1].tls

\* C36: the connection a call has obtained for a backend configured with
\* tls = true is a TLS connection, whether the pool dialled it for this call
\* or held it from an earlier one.
C36_ConnectionHasConfiguredTLS ==
  (dloc.conn # 0 /\ ConfiguredTLS) => conns[dloc.conn].tls

\* C38: the drain runs only once httpServer.Shutdown and
\* grpcServer.GracefulStop have returned, and a call that is still being
\* served, its context live, never has the connection it obtained closed by
\* the drain.
C38_DrainAfterServing ==
  /\ cpc # "idle" => mpc \in {"stopped", "exited"}
  /\ (cpc # "idle" /\ Serving /\ dloc.conn # 0) => conns[dloc.conn].state # "SHUTDOWN"
====
